---- MODULE Spec2Model ----
(***************************************************************************)
(* Model of pyatoa's Pyaflowa event driver (core/pyaflowa.py): the         *)
(* per-event station loop (setup, process_station, finalize), the          *)
(* multi-event fan-out (multi_event_process) and the fixed-window policy   *)
(* (_check_fix_windows).                                                    *)
(*                                                                         *)
(* Misfits are counted in integer units; a scaled misfit 0.5 * m / n is    *)
(* the reduced fraction m / (2 n).                                         *)
(***************************************************************************)
EXTENDS Integers, Sequences, FiniteSets, TLC

\* ------------------------------------------------------------------ bounds
MaxCodes  == 2      \* longest station code list of one event
MaxMisfit == 1      \* largest raw misfit of one station (integer units)
MaxWin    == 1      \* largest window count of one station
MaxIter   == 2      \* largest iteration index drawn for _check_fix_windows
MaxStep   == 2      \* largest step count drawn for _check_fix_windows
MaxSources == 2     \* longest source_names list of multi_event_process
MaxKwargs == 2      \* most keyword arguments of multi_event_process
MaxWriteFail == 1   \* latest dataset write of one stage that can fail
MaxOps == 5         \* most operations made on one Manager

\* ------------------------------------------------------------- arithmetic
RECURSIVE GCD(_, _)
GCD(a, b) == IF b = 0 THEN a ELSE GCD(b, a % b)

\* The value num / den as a reduced fraction (den > 0, num >= 0).
Frac(num, den) ==
    LET g == GCD(num, den)
    IN  [num |-> num \div g, den |-> den \div g]

\* --------------------------------------------- _check_fix_windows (policy)
\* Values a caller can pass as fix_windows; t is the Python type, v its repr.
Policies ==
    { [t |-> "bool", v |-> "True"],  [t |-> "bool", v |-> "False"],
      [t |-> "str",  v |-> "ITER"],  [t |-> "str",  v |-> "iter"],
      [t |-> "str",  v |-> "ONCE"],  [t |-> "str",  v |-> "Once"],
      [t |-> "str",  v |-> "foo"],   [t |-> "NoneType", v |-> "None"],
      [t |-> "int",  v |-> "1"] }

\* Variant: the policy string compared as written, without str.upper().
Upper_AsWritten(s) == s

\* str.upper() on the strings of Policies
Upper(s) ==
    CASE s \in {"ITER", "iter"} -> "ITER"
      [] s \in {"ONCE", "Once"} -> "ONCE"
      [] s = "foo"              -> "FOO"
      [] OTHER                  -> s

\* self.begin of a standalone Pyaflowa
StandaloneBegin == -9999

\* Variant: the first-evaluation test of line 599 left out.
CheckFixWindows_NoFirstEvaluation(iteration, step_count, policy, begin) ==
    IF policy.t = "str"
    THEN IF Upper(policy.v) = "ITER"
         THEN [exc |-> "none", fix |-> (step_count # 0)]
         ELSE IF Upper(policy.v) = "ONCE"
         THEN [exc |-> "none",
               fix |-> ~(iteration = begin /\ step_count = 0)]
         ELSE [exc |-> "UnboundLocalError", fix |-> FALSE]
    ELSE IF policy.t = "bool"
    THEN [exc |-> "none", fix |-> (policy.v = "True")]
    ELSE [exc |-> "NotImplementedError", fix |-> FALSE]

\* Variant: "ONCE" compared with the first iteration instead of self.begin.
CheckFixWindows_OnceAtFirstIteration(iteration, step_count, policy, begin) ==
    IF iteration = 1 /\ step_count = 0
    THEN [exc |-> "none", fix |-> FALSE]
    ELSE IF policy.t = "str"
    THEN IF Upper(policy.v) = "ITER"
         THEN [exc |-> "none", fix |-> (step_count # 0)]
         ELSE IF Upper(policy.v) = "ONCE"
         THEN [exc |-> "none", fix |-> TRUE]
         ELSE [exc |-> "UnboundLocalError", fix |-> FALSE]
    ELSE IF policy.t = "bool"
    THEN [exc |-> "none", fix |-> (policy.v = "True")]
    ELSE [exc |-> "NotImplementedError", fix |-> FALSE]

\* Variant: a bool policy treated like "ITER".
CheckFixWindows_BoolByStep(iteration, step_count, policy, begin) ==
    IF iteration = 1 /\ step_count = 0
    THEN [exc |-> "none", fix |-> FALSE]
    ELSE IF policy.t = "str"
    THEN IF Upper(policy.v) = "ITER"
         THEN [exc |-> "none", fix |-> (step_count # 0)]
         ELSE IF Upper(policy.v) = "ONCE"
         THEN [exc |-> "none",
               fix |-> ~(iteration = begin /\ step_count = 0)]
         ELSE [exc |-> "UnboundLocalError", fix |-> FALSE]
    ELSE IF policy.t = "bool"
    THEN [exc |-> "none", fix |-> (step_count # 0)]
    ELSE [exc |-> "NotImplementedError", fix |-> FALSE]

\* _check_fix_windows(fix_windows) with self.config = (iteration, step_count)
\* and self.begin: the exception it raises ("none" when it returns) and the
\* fix_windows value it puts into kwargs.
CheckFixWindows(iteration, step_count, policy, begin) ==
    IF iteration = 1 /\ step_count = 0
    THEN [exc |-> "none", fix |-> FALSE]
    ELSE IF policy.t = "str"
    THEN IF Upper(policy.v) = "ITER"
         THEN [exc |-> "none", fix |-> (step_count # 0)]
         ELSE IF Upper(policy.v) = "ONCE"
         THEN [exc |-> "none",
               fix |-> ~(iteration = begin /\ step_count = 0)]
         \* neither branch assigns fix_windows_out: line 624 reads it unbound
         ELSE [exc |-> "UnboundLocalError", fix |-> FALSE]
    ELSE IF policy.t = "bool"
    THEN [exc |-> "none", fix |-> (policy.v = "True")]
    ELSE [exc |-> "NotImplementedError", fix |-> FALSE]

\* --------------------------------------------------------- station inputs
\* Station codes NN.SSS.LL.CCC as their '.'-separated parts; the last one is
\* a malformed code with two parts only.
Codes ==
    { <<"NZ", "BFZ", "??", "HH?">>, <<"XX", "KNZ", "??", "HH?">>,
      <<"NZ", "BFZ">> }

\* The event's STATIONS file: lines "STA NET LAT LON ..." as <<STA, NET>>.
StationsFile == << <<"BFZ", "NZ">>, <<"KNZ", "XX">> >>

\* read_station_codes(stations_file, loc="??", cha="HH?")
ReadStationCodes(lines) ==
    [i \in 1..Len(lines) |-> <<lines[i][2], lines[i][1], "??", "HH?">>]

ComponentList == {"N", "E", "Z"}

\* mgmt.stats after a flow that returned: window count and raw misfit of the
\* station.  The misfit stage is skipped when no window was picked, so a
\* station without windows has no misfit.
StationStats ==
    { s \in [misfit : 0..MaxMisfit, nwin : 0..MaxWin] :
        s.nwin = 0 => s.misfit = 0 }

\* What the Manager does for one station: the outcome of gather, flow, plot
\* and write_adjsrcs, and the statistics the Manager holds after flow (a
\* flow that raised may have picked windows before).  A field that
\* process_station never gets to use (flow after a failed gather,
\* write_adjsrcs after a failed flow or plot) is kept at one value.
NoStats == [misfit |-> 0, nwin |-> 0]

Behaviours ==
    { b \in [ gather : {"ok", "ManagerError", "Exception"},
              flow   : {"ok", "ManagerError", "Exception"},
              stats  : StationStats,
              plot   : {"saved", "nofile", "Exception"},
              write  : {"ok", "Exception"} ] :
        /\ b.gather # "ok" =>
               b.flow = "ok" /\ b.plot = "saved" /\ b.stats = NoStats
        /\ (b.gather # "ok" \/ b.flow # "ok" \/ b.plot = "Exception") =>
               b.write = "ok" }

\* mgmt.write_adjsrcs(path, write_blanks=True): one file per configured
\* component of a station that has adjoint sources, none otherwise.
WriteAdjsrcs(adj, code, stats) ==
    IF stats.nwin = 0 THEN adj
    ELSE adj \cup { <<code[1], code[2], c>> : c \in ComponentList }

\* ---------------------------------------------------------------- IO
NewIO ==
    [misfit |-> 0, nwin |-> 0, stations |-> 0, processed |-> 0,
     exceptions |-> 0, plot_fids |-> <<>>]

\* ------------------------------------------------------- process_station
\* The outcome of process_station(mgmt, code, io): the IO record, the figure
\* and adjoint-source files on disk, the Manager methods it invoked, the
\* exception that left it ("none" when it returned), and the status of the
\* processing chunk (-1: not reached).
PS_Result(io, fig, adj, calls, exc, status) ==
    [io |-> io, fig |-> fig, adj |-> adj, calls |-> calls, exc |-> exc,
     status |-> status]

\* Variant: the statistics are accumulated whatever the status.
PS_Finalization_AnyStatus(io, fig, adj, calls, code, beh, status) ==
    LET io1 == [io EXCEPT !.misfit = @ + beh.stats.misfit,
                          !.nwin = @ + beh.stats.nwin,
                          !.processed = @ + 1]
    IN  IF status # 1 THEN PS_Result(io1, fig, adj, calls, "none", status)
        ELSE IF beh.write = "Exception"
        THEN PS_Result(io1, fig, adj, Append(calls, "write_adjsrcs"),
                       "Exception", status)
        ELSE PS_Result(io1, fig, WriteAdjsrcs(adj, code, beh.stats),
                       Append(calls, "write_adjsrcs"), "none", status)

\* lines 549-559: finalization chunk
PS_Finalization(io, fig, adj, calls, code, beh, status) ==
    IF status # 1 THEN PS_Result(io, fig, adj, calls, "none", status)
    ELSE
      LET io1 == [io EXCEPT !.misfit = @ + beh.stats.misfit,
                            !.nwin = @ + beh.stats.nwin,
                            !.processed = @ + 1]
          calls1 == Append(calls, "write_adjsrcs")
      IN  IF beh.write = "Exception"
          THEN PS_Result(io1, fig, adj, calls1, "Exception", status)
          ELSE PS_Result(io1, fig, WriteAdjsrcs(adj, code, beh.stats),
                         calls1, "none", status)

\* lines 538-547: plotting chunk
PS_Plotting(io, fig, adj, calls, code, beh, status, plot_on) ==
    IF ~plot_on
    THEN PS_Finalization(io, fig, adj, calls, code, beh, status)
    ELSE
      LET save == <<code[1], code[2]>>
          calls1 == Append(calls, "plot")
      IN  IF beh.plot = "Exception"
          THEN PS_Result(io, fig, adj, calls1, "Exception", status)
          ELSE
            LET fig1 == IF beh.plot = "saved" THEN fig \cup {save} ELSE fig
                io1 == [io EXCEPT !.plot_fids = Append(@, save)]
            IN  PS_Finalization(io1, fig1, adj, calls1, code, beh, status)

\* Variant: a ManagerError of flow is counted like an uncategorized one.
PS_Processing_CountsManagerError(io, fig, adj, calls, code, beh, plot_on, cfg, begin, kw) ==
    LET chk == CheckFixWindows(cfg.iteration, cfg.step_count, kw, begin)
        flow == IF chk.exc # "none" THEN "Exception" ELSE beh.flow
        calls1 == IF chk.exc # "none" THEN calls ELSE Append(calls, "flow")
        status == IF flow = "ok" THEN 1 ELSE 0
        io1 == IF flow # "ok"
               THEN [io EXCEPT !.exceptions = @ + 1] ELSE io
    IN  PS_Plotting(io1, fig, adj, calls1, code, beh, status, plot_on)

\* lines 520-536: processing chunk
PS_Processing(io, fig, adj, calls, code, beh, plot_on, cfg, begin, kw) ==
    LET chk == CheckFixWindows(cfg.iteration, cfg.step_count, kw, begin)
        flow == IF chk.exc # "none" THEN "Exception" ELSE beh.flow
        calls1 == IF chk.exc # "none" THEN calls ELSE Append(calls, "flow")
        status == IF flow = "ok" THEN 1 ELSE 0
        io1 == IF flow = "Exception"
               THEN [io EXCEPT !.exceptions = @ + 1] ELSE io
    IN  PS_Plotting(io1, fig, adj, calls1, code, beh, status, plot_on)

\* Variant: a failed gather does not return but goes on to the plot.
ProcessStation_GatherFallsThrough(io, fig, adj, code, beh, plot_on, cfg, begin, kw) ==
    IF Len(code) # 4
    THEN PS_Result(io, fig, adj, <<>>, "ValueError", -1)
    ELSE
      LET io1 == [io EXCEPT !.stations = @ + 1]
          calls == <<"reset", "gather">>
      IN  IF beh.gather = "ManagerError"
          THEN PS_Plotting(io1, fig, adj, calls, code, beh, 0, plot_on)
          ELSE IF beh.gather = "Exception"
          THEN PS_Result(io1, fig, adj, calls, "Exception", -1)
          ELSE PS_Processing(io1, fig, adj, calls, code, beh, plot_on,
                             cfg, begin, kw)

\* Variant: the station is counted once its data were gathered.
ProcessStation_CountsGathered(io, fig, adj, code, beh, plot_on, cfg, begin, kw) ==
    IF Len(code) # 4
    THEN PS_Result(io, fig, adj, <<>>, "ValueError", -1)
    ELSE
      LET io1 == [io EXCEPT !.stations = @ + 1]
          calls == <<"reset", "gather">>
      IN  IF beh.gather = "ManagerError"
          THEN PS_Result(io, fig, adj, calls, "none", -1)
          ELSE IF beh.gather = "Exception"
          THEN PS_Result(io, fig, adj, calls, "Exception", -1)
          ELSE PS_Processing(io1, fig, adj, calls, code, beh, plot_on,
                             cfg, begin, kw)

\* process_station(mgmt, code, io, **kwargs)
ProcessStation(io, fig, adj, code, beh, plot_on, cfg, begin, kw) ==
    \* line 507: net, sta, loc, cha = code.split(".")
    IF Len(code) # 4
    THEN PS_Result(io, fig, adj, <<>>, "ValueError", -1)
    ELSE
      LET io1 == [io EXCEPT !.stations = @ + 1]
          calls == <<"reset", "gather">>
      IN  IF beh.gather = "ManagerError"
          THEN PS_Result(io1, fig, adj, calls, "none", -1)
          ELSE IF beh.gather = "Exception"
          THEN PS_Result(io1, fig, adj, calls, "Exception", -1)
          ELSE PS_Processing(io1, fig, adj, calls, code, beh, plot_on,
                             cfg, begin, kw)

\* ---------------------------------------------------------------- finalize
\* 0.5 * raw_misfit / nwin
ScaleRawEventMisfit(raw_misfit, nwin) ==
    IF nwin = 0
    THEN [kind |-> "raised", num |-> 0, den |-> 1,
          exc |-> "ZeroDivisionError", where |-> "finalize"]
    ELSE [kind |-> "num", num |-> Frac(raw_misfit, 2 * nwin).num,
          den |-> Frac(raw_misfit, 2 * nwin).den,
          exc |-> "none", where |-> "finalize"]

ReturnNone ==
    [kind |-> "none", num |-> 0, den |-> 1, exc |-> "none",
     where |-> "finalize"]

Raised(exc, where) ==
    [kind |-> "raised", num |-> 0, den |-> 1, exc |-> exc, where |-> where]

Pending ==
    [kind |-> "pending", num |-> 0, den |-> 1, exc |-> "none",
     where |-> "none"]

EventPdf == <<"event", "pdf">>

\* os.remove(fid) for each fid of fids in order; ok is FALSE as soon as one
\* of them does not exist (FileNotFoundError).
RECURSIVE RemoveEach(_, _)
RemoveEach(fids, fig) ==
    IF fids = <<>> THEN [fig |-> fig, ok |-> TRUE]
    ELSE IF Head(fids) \notin fig THEN [fig |-> fig, ok |-> FALSE]
    ELSE RemoveEach(Tail(fids), fig \ {Head(fids)})

\* _make_event_pdf_from_station_pdfs: merge_pdfs reads every station pdf
\* (it fails on a missing one) and writes the event pdf; then the station
\* pdfs are removed one by one.
MakeEventPdf(io, fig) ==
    IF io.plot_fids = <<>> THEN [fig |-> fig, ok |-> TRUE]
    ELSE IF \E i \in 1..Len(io.plot_fids) : io.plot_fids[i] \notin fig
    THEN [fig |-> fig, ok |-> FALSE]
    ELSE RemoveEach(io.plot_fids, fig \cup {EventPdf})

\* _write_specfem_stations_adjoint_to_disk: the lines of the STATIONS file
\* whose [NET, STA] is the head of an adjoint-source file name.
WriteStationsAdjoint(adj, lines) ==
    LET adjoint_stations == { <<a[1], a[2]>> : a \in adj }
    IN  SelectSeq(lines, LAMBDA l : <<l[2], l[1]>> \in adjoint_stations)

\* Variant: the test is on the number of processed stations.
FinalizeReturn_IfProcessed(io) ==
    IF io.processed # 0
    THEN ScaleRawEventMisfit(io.misfit, io.nwin)
    ELSE ReturnNone

\* lines 472-476 of finalize
FinalizeReturn(io) ==
    IF io.misfit # 0
    THEN ScaleRawEventMisfit(io.misfit, io.nwin)
    ELSE ReturnNone

Finalize(io, fig, adj, lines) ==
    LET pdf == MakeEventPdf(io, fig)
    IN  IF ~pdf.ok
        THEN [fig |-> pdf.fig, sta_adj |-> <<>>, written |-> FALSE,
              result |-> Raised("FileNotFoundError", "finalize")]
        ELSE [fig |-> pdf.fig, sta_adj |-> WriteStationsAdjoint(adj, lines),
              written |-> TRUE, result |-> FinalizeReturn(io)]

\* ------------------------------------------------------------ process_event
\* One worker's whole process_event(source_name, codes): setup, the station
\* loop over codes with the Manager behaving as behs[i] for the i-th code,
\* and finalize.  rest is the list of codes still to be processed.
RECURSIVE StationLoop(_, _, _, _, _, _, _, _, _, _)
StationLoop(io, fig, adj, rest, behs, plot_on, cfg, begin, kw, lines) ==
    IF rest = <<>> THEN Finalize(io, fig, adj, lines).result
    ELSE
      LET r == ProcessStation(io, fig, adj, Head(rest), Head(behs), plot_on,
                              cfg, begin, kw)
      IN  IF r.exc # "none" THEN Raised(r.exc, "process_station")
          ELSE StationLoop(r.io, r.fig, r.adj, Tail(rest), Tail(behs),
                           plot_on, cfg, begin, kw, lines)

\* PathStructure.format inside setup: the stations file has to exist.
SetupRaises(sf_exists) == ~sf_exists

ProcessEvent(sf_exists, codes_, behs, plot_on, cfg, begin, kw, lines) ==
    IF SetupRaises(sf_exists) THEN Raised("FileNotFoundError", "setup")
    ELSE StationLoop(NewIO, {}, {}, codes_, behs, plot_on, cfg, begin, kw,
                     lines)

\* ================================================= Manager (single station)
\* core/manager_withcrate.py.  Python values are records tagged with their
\* type in the field py.
PyNone == [py |-> "None"]
Str(s) == [py |-> "str", v |-> s]
PyInt(n) == [py |-> "int", v |-> n]
Dict(keys) == [py |-> "dict", keys |-> keys]
Event == [py |-> "Event"]
Inventory(sta) == [py |-> "Inventory", sta |-> sta]

\* An obspy Stream with traces: the station it was gathered for, whether its
\* traces carry the processing history preproc leaves, and its content:
\* comps, the components it has a trace for, and pick, the components on
\* which the waveform lets pyflex find a window.
Stream(sta, proc, content) ==
    [py |-> "Stream", sta |-> sta, proc |-> proc, comps |-> content.comps,
     pick |-> content.pick]

IsStream(x) == x.py = "Stream"

\* bool(x) of the values above
Truthy(x) == x.py # "None" /\ (x.py = "dict" => x.keys # {})

\* station codes handed to gather_data
ManagerStations == {"NZ.BFZ", "XX.KNZ"}

\* config.component_list, in order
component_list == <<"Z", "N", "E">>

\* contents a stream can have: all three components and a window on Z, or
\* no north trace and a window on Z; and for the synthetics also all three
\* components and no window
WindowOnZ == [comps |-> {"Z", "N", "E"}, pick |-> {"Z"}]
ObservedContents == { WindowOnZ, [comps |-> {"Z", "E"}, pick |-> {"Z"}] }
SyntheticContents ==
    ObservedContents \cup { [comps |-> {"Z", "N", "E"}, pick |-> {}] }

\* Crate.__init__; time_offset is no attribute of a new Crate (None here)
NewCrate ==
    [station_code |-> PyNone, st_obs |-> PyNone, st_syn |-> PyNone,
     inv |-> PyNone, event |-> PyNone, windows |-> PyNone,
     adj_srcs |-> PyNone, number_windows |-> PyNone,
     total_misfit |-> PyNone, syn_shift_flag |-> FALSE,
     time_offset |-> PyNone]

\* Gatherer(config, ds): no event resolved yet
NewGatherer == [py |-> "Gatherer", event |-> PyNone]

\* Manager.launch(reset, set_event) on the Manager (gatherer, crate) with
\* config.event_id; query is the outcome of gatherer.gather_event() if it is
\* called.  Returns the new gatherer and crate, whether a Gatherer was
\* instantiated, the number of event queries issued and the exception that
\* leaves launch, if any.
Launch(gatherer, crate, event_id, reset, set_event, query) ==
    LET fresh == (gatherer = PyNone) \/ reset
        g == IF fresh THEN NewGatherer ELSE gatherer
    IN  IF set_event # PyNone
        THEN [gatherer |-> [g EXCEPT !.event = set_event],
              crate |-> [crate EXCEPT !.event = set_event],
              new_gatherer |-> fresh, queries |-> 0, exc |-> "none"]
        ELSE IF g.event # PyNone
        THEN [gatherer |-> g, crate |-> [crate EXCEPT !.event = g.event],
              new_gatherer |-> fresh, queries |-> 0, exc |-> "none"]
        ELSE IF event_id = PyNone
        THEN [gatherer |-> g, crate |-> crate,
              new_gatherer |-> fresh, queries |-> 0, exc |-> "none"]
        ELSE IF query = "ok"
        THEN [gatherer |-> [g EXCEPT !.event = Event],
              crate |-> [crate EXCEPT !.event = Event],
              new_gatherer |-> fresh, queries |-> 1, exc |-> "none"]
        ELSE [gatherer |-> g, crate |-> crate,
              new_gatherer |-> fresh, queries |-> 1, exc |-> "Exception"]

\* Manager.reset(choice)
Reset(gatherer, event_id, choice, query) ==
    IF choice = "soft"
    THEN Launch(gatherer, NewCrate, event_id, TRUE, PyNone, query)
    ELSE [gatherer |-> gatherer, crate |-> NewCrate,
          new_gatherer |-> FALSE, queries |-> 0, exc |-> "none"]

\* Whether the Gatherer request of this kind raises: fail names the request
\* the Gatherer cannot serve; without a Gatherer every request is an
\* attribute access on None.
RequestRaises(gatherer, kind, fail) == gatherer = PyNone \/ fail = kind

\* One guarded assignment of gather_data's non-overwrite branch,
\*     if not self.crate.<field>: self.crate.<field> = self.gatherer.<kind>(..)
\* applied to the running outcome r = [crate, requests, stopped].
GatherField(r, gatherer, field, kind, value, fail) ==
    IF r.stopped \/ Truthy(r.crate[field]) THEN r
    ELSE IF RequestRaises(gatherer, kind, fail)
    THEN [r EXCEPT !.requests = Append(@, kind), !.stopped = TRUE]
    ELSE [r EXCEPT !.crate[field] = value, !.requests = Append(@, kind)]

\* One assignment of the overwrite branch, made whatever the field holds.
FetchField(r, gatherer, field, kind, value, fail) ==
    IF r.stopped THEN r
    ELSE IF RequestRaises(gatherer, kind, fail)
    THEN [r EXCEPT !.requests = Append(@, kind), !.stopped = TRUE]
    ELSE [r EXCEPT !.crate[field] = value, !.requests = Append(@, kind)]

\* Variant: the non-overwrite branch fetches every field, like the
\* overwrite branch.
GatherData_AlwaysFetch(crate, gatherer, code, overwrite, fail, cobs, csyn) ==
    LET r0 == [crate |-> [crate EXCEPT !.station_code = Str(code)],
               requests |-> <<>>, stopped |-> FALSE]
        r1 == FetchField(r0, gatherer, "inv", "station",
                         Inventory(code), fail)
        r2 == FetchField(r1, gatherer, "st_obs", "observed",
                         Stream(code, FALSE, cobs), fail)
    IN  FetchField(r2, gatherer, "st_syn", "synthetic",
                   Stream(code, FALSE, csyn), fail)

\* Manager.gather_data(station_code, overwrite): the crate it leaves, the
\* Gatherer requests it issued, and stopped when a request raised.  The
\* exception is printed and gather_data returns None either way.
GatherData(crate, gatherer, code, overwrite, fail, cobs, csyn) ==
    IF overwrite
    THEN LET r0 == [crate |-> [crate EXCEPT !.station_code = Str(code)],
                    requests |-> <<>>, stopped |-> FALSE]
             r1 == FetchField(r0, gatherer, "inv", "station",
                              Inventory(code), fail)
             r2 == FetchField(r1, gatherer, "st_obs", "observed",
                              Stream(code, FALSE, cobs), fail)
         IN  FetchField(r2, gatherer, "st_syn", "synthetic",
                        Stream(code, FALSE, csyn), fail)
    ELSE LET r0 == [crate |-> IF Truthy(crate.station_code) THEN crate
                              ELSE [crate EXCEPT !.station_code = Str(code)],
                    requests |-> <<>>, stopped |-> FALSE]
             r1 == GatherField(r0, gatherer, "inv", "station",
                               Inventory(code), fail)
             r2 == GatherField(r1, gatherer, "st_obs", "observed",
                               Stream(code, FALSE, cobs), fail)
         IN  GatherField(r2, gatherer, "st_syn", "synthetic",
                         Stream(code, FALSE, csyn), fail)

\* Manager.preprocess(): obs and syn are the types preproc returns for the
\* observed and the synthetic stream ("Stream", or "None" when it could not
\* process them; processing leaves the content of a stream as it is), stf
\* what the event holds of focal_mechanisms[0].moment_tensor.
\* source_time_function.duration: "duration" when all of it, else the first
\* part that is missing (an empty focal_mechanisms list, a moment_tensor
\* or a source_time_function that is None).
Preprocess(crate, stf, obs, syn) ==
    IF ~(IsStream(crate.st_obs) /\ IsStream(crate.st_syn))
    THEN [crate |-> crate, exc |-> "none"]
    ELSE LET c1 == [crate EXCEPT !.st_obs =
                        IF obs = "Stream"
                        THEN [crate.st_obs EXCEPT !.proc = TRUE]
                        ELSE PyNone]
             c2 == [c1 EXCEPT !.st_syn =
                        IF syn = "Stream"
                        THEN [crate.st_syn EXCEPT !.proc = TRUE]
                        ELSE PyNone]
         IN  IF ~IsStream(c1.st_obs) THEN [crate |-> c1, exc |-> "none"]
             ELSE IF ~IsStream(c2.st_syn) THEN [crate |-> c2, exc |-> "none"]
             \* line 437: self.crate.event.preferred_origin()
             ELSE IF c2.event = PyNone
             THEN [crate |-> c2, exc |-> "AttributeError"]
             ELSE LET c3 == [c2 EXCEPT !.time_offset = [py |-> "float"]]
                  IN  IF stf = "duration"
                      THEN [crate |-> [c3 EXCEPT !.syn_shift_flag = TRUE],
                            exc |-> "none"]
                      \* focal_mechanisms[0] of an empty list
                      ELSE IF stf = "no_focal_mechanism"
                      THEN [crate |-> c3, exc |-> "IndexError"]
                      \* attribute of None: caught by except AttributeError
                      ELSE [crate |-> c3, exc |-> "none"]

\* the keys of a component dict in the order they were inserted
OrderedKeys(keys) == SelectSeq(component_list, LAMBDA c : c \in keys)

\* The dataset after the writes of one stage: one entry per key, in order;
\* wfail = k > 0 makes the k-th write raise, after k - 1 entries.
DatasetWrites(ds, kind, sta, keys, wfail) ==
    LET ks == OrderedKeys(keys)
        n == IF wfail \in 1..Len(ks) THEN wfail - 1 ELSE Len(ks)
    IN  [ds |-> ds \cup { <<kind, sta, ks[i]>> : i \in 1..n },
         exc |-> IF wfail \in 1..Len(ks) THEN "Exception" ELSE "none",
         write_failed |-> wfail \in 1..Len(ks)]

\* pyflex.select_windows for one component: whether it returns a window.
\* Without a trace of the component in either stream the IndexError is
\* caught and the window list is empty (lines 502-511).
SelectWindows(st_obs, st_syn, comp) ==
    /\ comp \in st_obs.comps /\ comp \in st_syn.comps
    /\ comp \in st_obs.pick /\ comp \in st_syn.pick

\* line 514-515: self.crate.st_syn.select(component=comp)[0]
StaltaRaises(st_syn, comp) == comp \notin st_syn.comps

RunPyflex_KeepsEmptyLists(crate, ds, has_ds, wfail) ==
    [crate |-> IF IsStream(crate.st_obs) /\ IsStream(crate.st_syn)
               THEN [crate EXCEPT
                        !.windows = Dict(crate.st_syn.comps),
                        !.number_windows =
                            PyInt(Cardinality(crate.st_obs.pick
                                                  \cap crate.st_syn.pick))]
               ELSE crate,
     ds |-> ds, exc |-> "none", write_failed |-> FALSE]

\* Manager.run_pyflex()
RunPyflex(crate, ds, has_ds, wfail) ==
    IF ~(IsStream(crate.st_obs) /\ IsStream(crate.st_syn))
    THEN [crate |-> crate, ds |-> ds, exc |-> "none",
          write_failed |-> FALSE]
    \* set_pyflex_station_event reads the origin of the event
    ELSE IF crate.event = PyNone
    THEN [crate |-> crate, ds |-> ds, exc |-> "AttributeError",
          write_failed |-> FALSE]
    \* the loop over config.component_list is left by the IndexError of the
    \* STA/LTA line, before anything is stored in the crate
    ELSE IF \E i \in DOMAIN component_list :
                StaltaRaises(crate.st_syn, component_list[i])
    THEN [crate |-> crate, ds |-> ds, exc |-> "IndexError",
          write_failed |-> FALSE]
    ELSE LET keys == { component_list[i] : i \in
                         { j \in DOMAIN component_list :
                             SelectWindows(crate.st_obs, crate.st_syn,
                                           component_list[j]) } }
             c == [crate EXCEPT !.windows = Dict(keys),
                                !.number_windows = PyInt(Cardinality(keys))]
         IN  IF has_ds /\ Cardinality(keys) # 0
             THEN LET w == DatasetWrites(ds, "MisfitWindows",
                                         crate.st_obs.sta, keys, wfail)
                  IN  [crate |-> c, ds |-> w.ds, exc |-> w.exc,
                       write_failed |-> w.write_failed]
             ELSE [crate |-> c, ds |-> ds, exc |-> "none",
                   write_failed |-> FALSE]

RunPyadjoint_PrecheckNoneOnly(crate, ds, has_ds, wfail) ==
    IF crate.windows = PyNone
    THEN [crate |-> crate, ds |-> ds, exc |-> "none",
          write_failed |-> FALSE]
    ELSE IF crate.number_windows.v = 0
    THEN [crate |-> [crate EXCEPT !.adj_srcs = Dict(crate.windows.keys)],
          ds |-> ds, exc |-> "ZeroDivisionError", write_failed |-> FALSE]
    ELSE [crate |-> [crate EXCEPT !.adj_srcs = Dict(crate.windows.keys),
                                  !.total_misfit = [py |-> "float"]],
          ds |-> ds, exc |-> "none", write_failed |-> FALSE]

\* Manager.run_pyadjoint()
RunPyadjoint(crate, ds, has_ds, wfail) ==
    IF crate.windows = PyNone \/ crate.windows.keys = {}
    THEN [crate |-> crate, ds |-> ds, exc |-> "none",
          write_failed |-> FALSE]
    \* lines 596 and 603: self.crate.st_obs[0], self.crate.st_syn.select
    ELSE IF ~IsStream(crate.st_obs)
    THEN [crate |-> crate, ds |-> ds, exc |-> "TypeError",
          write_failed |-> FALSE]
    ELSE IF ~IsStream(crate.st_syn)
    THEN [crate |-> crate, ds |-> ds, exc |-> "AttributeError",
          write_failed |-> FALSE]
    ELSE LET ks == OrderedKeys(crate.windows.keys)
             \* lines 602-603: select(component=key)[0] of a stream
             \* without a trace of the component
             absent == { i \in DOMAIN ks :
                           ks[i] \notin crate.st_obs.comps
                                          \cap crate.st_syn.comps }
             first == IF absent = {} THEN 0
                      ELSE CHOOSE i \in absent : \A j \in absent : i <= j
             stop == IF first # 0 /\ (wfail = 0 \/ wfail >= first)
                     THEN first ELSE wfail
             w == IF has_ds
                  \* the tag is made of adj_src.network and adj_src.station,
                  \* which pyadjoint takes from the observed trace
                  THEN DatasetWrites(ds, "AdjointSources", crate.st_obs.sta,
                                     crate.windows.keys, stop)
                  ELSE [ds |-> ds, exc |-> "none", write_failed |-> FALSE]
         IN  IF first # 0 /\ stop = first
             THEN [crate |-> crate, ds |-> w.ds, exc |-> "IndexError",
                   write_failed |-> FALSE]
             ELSE IF w.exc # "none"
             THEN [crate |-> crate, ds |-> w.ds, exc |-> w.exc,
                   write_failed |-> w.write_failed]
             ELSE IF crate.number_windows.v = 0
             THEN [crate |-> [crate EXCEPT
                                 !.adj_srcs = Dict(crate.windows.keys)],
                   ds |-> w.ds, exc |-> "ZeroDivisionError",
                   write_failed |-> FALSE]
             ELSE [crate |-> [crate EXCEPT
                                 !.adj_srcs = Dict(crate.windows.keys),
                                 !.total_misfit = [py |-> "float"]],
                   ds |-> w.ds, exc |-> "none", write_failed |-> FALSE]

\* Manager.st
St(crate) ==
    IF IsStream(crate.st_syn) /\ IsStream(crate.st_obs)
    THEN [py |-> "Stream", traces |-> <<crate.st_syn, crate.st_obs>>]
    ELSE IF IsStream(crate.st_syn) /\ ~IsStream(crate.st_obs)
    THEN [py |-> "Stream", traces |-> <<crate.st_syn>>]
    ELSE IF IsStream(crate.st_obs) /\ ~IsStream(crate.st_syn)
    THEN [py |-> "Stream", traces |-> <<crate.st_obs>>]
    ELSE PyNone

\* ============================================= write_adj_src_to_ascii
\* (utils/write.py).  An adjoint source of the dataset is named
\* <<station, component>> (the "NET_STA_BX" prefix and the last letter of
\* its ASDF name) and holds an array of rows <<time, amplitude>>.
MaxRows == 2
WaStations == <<"NZ_BFZ_BX", "XX_KNZ_BX">>
comp_list == <<"N", "E", "Z">>
Absent == <<>>

\* adjsrcs.list(): the names present, in alphabetical order
WaNameOrder ==
    << <<WaStations[1], "E">>, <<WaStations[1], "N">>, <<WaStations[1], "Z">>,
       <<WaStations[2], "E">>, <<WaStations[2], "N">>, <<WaStations[2], "Z">> >>
WaNames == { WaNameOrder[i] : i \in DOMAIN WaNameOrder }
AdjsrcsList(adjsrcs) == SelectSeq(WaNameOrder, LAMBDA n : adjsrcs[n] # Absent)

\* the arrays of the inputs: n rows at times 0, 1, ..., amplitudes a, 2a, ...
WaArray(n, a) == [i \in 1..n |-> <<i - 1, a * i>>]
WaArrays == { WaArray(n, a) : n \in 1..MaxRows, a \in {0, 1} }
WaInputs == [WaNames -> WaArrays \cup {Absent}]

\* one formatted line of write_to_ascii: each column with the format it
\* was written in ("d" integer, "f" fixed, "E" exponent) and its value
FormatRow(row) ==
    IF row[1] = 0 /\ row[2] # 0
    THEN [dt |-> <<"d", 0>>, amp |-> <<"E", row[2]>>]
    ELSE IF row[1] # 0 /\ row[2] = 0
    THEN [dt |-> <<"f", row[1]>>, amp |-> <<"d", 0>>]
    ELSE [dt |-> <<"f", row[1]>>, amp |-> <<"E", row[2]>>]
WriteToAscii(array) == [i \in DOMAIN array |-> FormatRow(array[i])]

\* blank_adj_src[:, 1] = np.zeros(...)
BlankOf(array) == [i \in DOMAIN array |-> <<array[i][1], 0>>]

NeedsBlank_IgnoringList(adjsrcs, station_blank, already_written) ==
    station_blank \notin already_written

\* the test before a blank is written
NeedsBlank(adjsrcs, station_blank, already_written) ==
    /\ adjsrcs[station_blank] = Absent
    /\ station_blank \notin already_written

RECURSIVE WriteBlanks(_, _, _, _)
\* the loop over comp_list for one adj_src; st holds the files of pathout
\* and already_written
WriteBlanks(adjsrcs, adj_src, c, st) ==
    IF c > Len(comp_list) THEN st
    ELSE LET station_blank == <<adj_src[1], comp_list[c]>>
             nxt == IF NeedsBlank(adjsrcs, station_blank, st.already_written)
                    THEN [files |->
                              (station_blank :>
                                  WriteToAscii(BlankOf(adjsrcs[adj_src])))
                              @@ st.files,
                          already_written |->
                              st.already_written \cup {station_blank}]
                    ELSE st
         IN  WriteBlanks(adjsrcs, adj_src, c + 1, nxt)

RECURSIVE WriteAdjSrcLoop(_, _, _, _)
\* the loop over adjsrcs.list(): the real file, then the blanks
WriteAdjSrcLoop(adjsrcs, names, i, st) ==
    IF i > Len(names) THEN st
    ELSE LET adj_src == names[i]
             real == [st EXCEPT !.files =
                         (adj_src :> WriteToAscii(adjsrcs[adj_src])) @@ @]
         IN  WriteAdjSrcLoop(adjsrcs, names, i + 1,
                             WriteBlanks(adjsrcs, adj_src, 1, real))

\* the files of pathout after write_adj_src_to_ascii
WriteAdjSrcToAscii(adjsrcs) ==
    WriteAdjSrcLoop(adjsrcs, AdjsrcsList(adjsrcs), 1,
                    [files |-> <<>>, already_written |-> {}]).files

\* ============================== several events set up in one process
\* Pyaflowa.setup called for one event after the other by the same process
\* (core/pyaflowa.py).  Lists are objects of a heap, named by their index,
\* so that two IO instances holding the same list can be told from two
\* instances holding equal lists.
MaxEvents == 2
MaxProcStations == 1
PrSources == {"2018p130600", "2012p242656"}
LoggerNames == <<"pyflex", "pyadjoint", "pyatoa">>
LoggerSet == { LoggerNames[i] : i \in DOMAIN LoggerNames }

IOInit_SharedList(heap, paths, config, misfit, nwin, stations, processed, exceptions, plot_fids) ==
    [io |-> [paths |-> paths, config |-> config, misfit |-> misfit, nwin |-> nwin,
             stations |-> stations, processed |-> processed,
             exceptions |-> exceptions, plot_fids |-> 1],
     heap |-> heap]

\* IO.__init__: plot_fids is the list it was given, or a new list when it
\* was given None or an empty list (plot_fids or [])
IOInit(heap, paths, config, misfit, nwin, stations, processed, exceptions, plot_fids) ==
    LET given == plot_fids # PyNone /\ heap[plot_fids.v] # <<>>
        heap1 == IF given THEN heap ELSE Append(heap, <<>>)
        list == IF given THEN plot_fids.v ELSE Len(heap1)
    IN  [io |-> [paths |-> paths, config |-> config, misfit |-> misfit,
                 nwin |-> nwin, stations |-> stations, processed |-> processed,
                 exceptions |-> exceptions, plot_fids |-> list],
         heap |-> heap1]

RECURSIVE AddHandler(_, _, _)
\* the loop of _create_event_log_handler: logger.addHandler(handler) for
\* the loggers i, i+1, ...
AddHandler(loggers, handler, i) ==
    IF i > Len(LoggerNames) THEN loggers
    ELSE AddHandler([loggers EXCEPT ![LoggerNames[i]] = Append(@, handler)],
                    handler, i + 1)

\* _create_event_log_handler(fid): the handlers after the call
CreateEventLogHandler(loggers, handler) == AddHandler(loggers, handler, 1)

\* setup, lines 424-434, on the event's copy of the Config: the event id,
\* the three data paths of the formatted path structure, and the client,
\* dropped when config.iteration != 1 and config.step_count != 0
SetupConfig(config, source_name, paths) ==
    [config EXCEPT
        !.event_id = Str(source_name),
        !.paths = [responses |-> paths.responses,
                   waveforms |-> paths.waveforms,
                   synthetics |-> paths.synthetics],
        !.client = IF config.iteration # 1 /\ config.step_count # 0
                   THEN PyNone ELSE @]

\* setup, lines 447-451: the plot_fids=[] literal is a list of its own
SetupIO(heap, config, source_name) ==
    LET heap1 == Append(heap, <<>>)
    IN  IOInit(heap1, source_name, config, 0, 0, 0, 0, 0, PyInt(Len(heap1)))

\* the IO instance with its list read from the heap, as process_station
\* sees it
IOView(io_obj, heap) ==
    [misfit |-> io_obj.misfit, nwin |-> io_obj.nwin,
     stations |-> io_obj.stations, processed |-> io_obj.processed,
     exceptions |-> io_obj.exceptions, plot_fids |-> heap[io_obj.plot_fids]]

\* what the Manager does for the stations of these events
PrBehaviours ==
    { b \in Behaviours :
        \/ b.gather = "ManagerError"
        \/ /\ b.gather = "ok" /\ b.flow = "Exception" /\ b.plot = "saved"
           /\ b.stats = NoStats
        \/ /\ b.gather = "ok" /\ b.flow = "ok" /\ b.plot = "saved"
           /\ b.write = "ok" /\ b.stats = [misfit |-> 1, nwin |-> 1] }

\* ===================================================== PathStructure.format
\* (core/pyaflowa.py).  A path structure gives each required role its list
\* of paths, here already formatted for one source name; parent gives the
\* closest directory above a path that is itself a path of the structure
\* ("" when there is none).  The file system is the set of paths that exist.
REQUIRED_PATHS ==
    <<"cwd", "datasets", "figures", "logs", "ds_file", "stations_file",
      "responses", "waveforms", "synthetics", "adjsrcs", "event_figures">>

Standalone ==
    [roles |-> [cwd |-> <<"work/SRC">>,
                datasets |-> <<"work/datasets">>,
                figures |-> <<"work/figures">>,
                logs |-> <<"work/logs">>,
                ds_file |-> <<"work/datasets/SRC.h5">>,
                stations_file |-> <<"work/SRC/STATIONS">>,
                responses |-> <<"work/input/responses">>,
                waveforms |-> <<"work/input/waveforms">>,
                synthetics |-> <<"work/input/synthetics/SRC">>,
                adjsrcs |-> <<"work/SRC/adjsrcs">>,
                event_figures |-> <<"work/figures/SRC">>],
     parent |-> [p \in {"work/datasets/SRC.h5"} |-> "work/datasets"] @@
                [p \in {"work/SRC/STATIONS", "work/SRC/adjsrcs"} |->
                     "work/SRC"] @@
                [p \in {"work/figures/SRC"} |-> "work/figures"] @@
                [p \in {"work/SRC", "work/datasets", "work/figures",
                        "work/logs", "work/input/responses",
                        "work/input/waveforms",
                        "work/input/synthetics/SRC"} |-> ""]]

\* the SeisFlows structure with PATH.DATA given
Seisflows ==
    [roles |-> [cwd |-> <<"solver/SRC">>,
                datasets |-> <<"pre/datasets">>,
                figures |-> <<"pre/figures">>,
                logs |-> <<"pre/logs">>,
                ds_file |-> <<"pre/datasets/SRC.h5">>,
                stations_file |-> <<"solver/SRC/DATA/STATIONS">>,
                responses |-> <<"data/seed">>,
                waveforms |-> <<"solver/SRC/traces/obs", "data/mseed">>,
                synthetics |-> <<"solver/SRC/traces/syn">>,
                adjsrcs |-> <<"solver/SRC/traces/adj">>,
                event_figures |-> <<"pre/figures/SRC">>],
     parent |-> [p \in {"pre/datasets/SRC.h5"} |-> "pre/datasets"] @@
                [p \in {"solver/SRC/DATA/STATIONS", "solver/SRC/traces/obs",
                        "solver/SRC/traces/syn", "solver/SRC/traces/adj"} |->
                     "solver/SRC"] @@
                [p \in {"pre/figures/SRC"} |-> "pre/figures"] @@
                [p \in {"solver/SRC", "pre/datasets", "pre/figures",
                        "pre/logs", "data/seed", "data/mseed"} |-> ""]]

Structures == {Standalone, Seisflows}
PathsOf(structure) == DOMAIN structure.parent

\* os.makedirs(path_): the directory and the directories above it
Makedirs(structure, fs, path_) ==
    fs \cup {path_} \cup
        (IF structure.parent[path_] = "" THEN {}
         ELSE {structure.parent[path_]})

FileMustExist_AnyFile(key) == key \in {"ds_file", "stations_file"}

\* a role whose missing file makes format raise: "_file" in key and
\* key != "ds_file"
FileMustExist(key) == key = "stations_file"

\* "_file" in key
IsFileRole(key) == key \in {"ds_file", "stations_file"}

RECURSIVE FormatDirs(_, _, _, _, _)
\* the loop over the paths of a directory role
FormatDirs(structure, fmt_paths, i, fs, mkdirs) ==
    IF i > Len(fmt_paths) THEN [fs |-> fs, exc |-> "none"]
    ELSE IF fmt_paths[i] \in fs
    THEN FormatDirs(structure, fmt_paths, i + 1, fs, mkdirs)
    ELSE IF mkdirs
    THEN FormatDirs(structure, fmt_paths, i + 1,
                    Makedirs(structure, fs, fmt_paths[i]), mkdirs)
    ELSE [fs |-> fs, exc |-> "IOError"]

RECURSIVE FormatLoop(_, _, _, _)
\* the loop over _REQUIRED_PATHS, from role k on
FormatLoop(structure, k, fs, mkdirs) ==
    IF k > Len(REQUIRED_PATHS) THEN [fs |-> fs, exc |-> "none"]
    ELSE LET key == REQUIRED_PATHS[k]
             fmt_paths == structure.roles[key]
         IN  IF IsFileRole(key)
             THEN IF /\ \E i \in DOMAIN fmt_paths : fmt_paths[i] \notin fs
                     /\ FileMustExist(key)
                  THEN [fs |-> fs, exc |-> "FileNotFoundError"]
                  ELSE FormatLoop(structure, k + 1, fs, mkdirs)
             ELSE LET d == FormatDirs(structure, fmt_paths, 1, fs, mkdirs)
                  IN  IF d.exc # "none" THEN d
                      ELSE FormatLoop(structure, k + 1, d.fs, mkdirs)

\* PathStructure.format(mkdirs, source_name=...)
Format(structure, fs, mkdirs) == FormatLoop(structure, 1, fs, mkdirs)

\* the file systems format can meet: nothing exists below a missing
\* directory
FileSystems(structure) ==
    { fs \in SUBSET PathsOf(structure) :
        \A p \in fs : structure.parent[p] # "" => structure.parent[p] \in fs }

\* ================================== write_misfit, write_stations_adjoint
\* (utils/write.py) on a dataset of one model.  The auxiliary data of the
\* dataset: the AdjointSources, named <<step, <<NET, STA, CHA>>>> (the
\* path step/NET_STA_CHA), each with its misfit_value, and the number of
\* MisfitWindows entries of every step that has a MisfitWindows group.
WdSteps == {"s00", "s01"}

WdCodes ==
    { <<"s00", <<"NZ", "BFZ", "BXZ">>>>, <<"s00", <<"XX", "KNZ", "BXZ">>>>,
      <<"s01", <<"NZ", "BFZ", "BXZ">>>> }

WdDatasets ==
    [adjsrcs : UNION { [S -> 0..MaxMisfit] : S \in SUBSET WdCodes },
     windows : UNION { [G -> 0..MaxWin] : G \in SUBSET WdSteps }]

\* the STATIONS file: lines "STA NET LAT LON ..." as <<STA, NET>>; two
\* networks have a station BFZ
WdStationsFile == << <<"BFZ", "NZ">>, <<"BFZ", "XX">>, <<"KNZ", "XX">> >>

\* ds.auxiliary_data.AdjointSources[model][step].list()
AdjSrcList(ds, step) == { c \in DOMAIN ds.adjsrcs : c[1] = step }

RECURSIVE TotalMisfit(_, _)
\* the loop of lines 60-63 over the adjoint sources named in codes
TotalMisfit(ds, codes_) ==
    IF codes_ = {} THEN 0
    ELSE LET c == CHOOSE x \in codes_ : TRUE
         IN  ds.adjsrcs[c] + TotalMisfit(ds, codes_ \ {c})

\* 0.5 * total_misfit / number_windows, where misfit_value is a Python
\* float or a numpy.float64 (numeric), as the dataset returns it
ScaledMisfit(total_misfit, number_windows, numeric) ==
    IF number_windows # 0
    THEN [kind |-> "num", num |-> Frac(total_misfit, 2 * number_windows).num,
          den |-> Frac(total_misfit, 2 * number_windows).den,
          exc |-> "none"]
    ELSE IF numeric = "float"
    THEN [kind |-> "none", num |-> 0, den |-> 1, exc |-> "ZeroDivisionError"]
    ELSE [kind |-> IF total_misfit = 0 THEN "nan" ELSE "inf",
          num |-> 0, den |-> 1, exc |-> "none"]

\* write_misfit(ds, model, step): the value written to fidout (kind "none"
\* when nothing is written) and the exception raised.  Looking up a group
\* the dataset does not have raises.
WriteMisfit(ds, step, numeric) ==
    IF AdjSrcList(ds, step) = {} \/ step \notin DOMAIN ds.windows
    THEN [kind |-> "none", num |-> 0, den |-> 1, exc |-> "KeyError"]
    ELSE ScaledMisfit(TotalMisfit(ds, AdjSrcList(ds, step)),
                      ds.windows[step], numeric)

\* write_stations_adjoint(ds, model, specfem_station_file, step): the
\* lines written to STATIONS_ADJOINT
WriteStationsAdjointOfDs(ds, lines, step) ==
    IF AdjSrcList(ds, step) = {}
    THEN [lines |-> <<>>, exc |-> "KeyError"]
    ELSE LET stas_with_adjsrcs == { c[2][2] : c \in AdjSrcList(ds, step) }
         IN  [lines |-> SelectSeq(lines,
                                  LAMBDA l : l[1] \in stas_with_adjsrcs),
              exc |-> "none"]

\* ============================================================== Inspector
\* (plugins/seisflows/inspector.py).  The keys of self.srcrcv, in insertion
\* order, are event ids and station names; a key is the sequence of its
\* '.'-separated parts.  A dataset holds one event and the coordinates of
\* its stations.
MaxAppends == 3

InspectorDatasets ==
    { [eid |-> <<"2018p130600">>, stations |-> << <<"NZ", "BFZ">> >>],
      [eid |-> <<"2012p242656">>,
       stations |-> << <<"NZ", "BFZ">>, <<"XX", "KNZ">> >>],
      [eid |-> <<"2013p617227">>, stations |-> <<>>] }

\* "." in key
HasDot(key) == Len(key) > 1

\* dict[key] = value: a new key goes last, a key already there keeps its
\* place
SetKey(keys, key) ==
    IF \E i \in DOMAIN keys : keys[i] = key THEN keys ELSE Append(keys, key)

RECURSIVE AddStations(_, _, _)
\* the loop of get_srcrcv over ds.get_all_coordinates(), from station i on
AddStations(keys, stations, i) ==
    IF i > Len(stations) THEN keys
    ELSE AddStations(SetKey(keys, stations[i]), stations, i + 1)

\* Inspector.get_srcrcv(ds): the keys of self.srcrcv after the call
GetSrcrcv(keys, ds) == AddStations(SetKey(keys, ds.eid), ds.stations, 1)

\* Inspector.append(dsfid, windows, srcrcv, misfits): opens is whether the
\* dataset can be opened (it raises OSError otherwise)
InspectorAppend(keys, ds, srcrcv, opens) ==
    IF ~opens THEN [keys |-> keys, status |-> 0]
    ELSE [keys |-> IF srcrcv THEN GetSrcrcv(keys, ds) ELSE keys,
          status |-> 1]

\* Inspector.get_event_ids_stations()
GetEventIdsStations(insp) ==
    [insp EXCEPT
        !._stations = [py |-> "list",
                       v |-> SelectSeq(insp.srcrcv, HasDot)],
        !._event_ids = [py |-> "list",
                        v |-> SelectSeq(insp.srcrcv,
                                        LAMBDA key : ~HasDot(key))]]

\* not x, for x None or a list
NotList(x) == x.py = "None" \/ x.v = <<>>

\* the property Inspector.event_ids: the Inspector after the read and the
\* list returned
EventIds(insp) ==
    LET i1 == IF NotList(insp._event_ids) THEN GetEventIdsStations(insp)
              ELSE insp
    IN  [insp |-> i1, value |-> i1._event_ids]

\* the property Inspector.stations
StationsOf(insp) ==
    LET i1 == IF NotList(insp._stations) THEN GetEventIdsStations(insp)
              ELSE insp
    IN  [insp |-> i1, value |-> i1._stations]

\* ------------------------------------------- the templates of a Pyaflowa
\* A path is a sequence of segments and a segment a sequence of pieces, so
\* that "{source_name}.h5" is the segment <<"{source_name}", ".h5">>.  An
\* attribute of a PathStructure is a str or a list of str.
SourceName == "{source_name}"
PStr(path) == [py |-> "str", v |-> path]
PList(paths) == [py |-> "list", v |-> paths]
Getcwd == << <<"/">>, <<"work">> >>

\* PathStructure.standalone(waveforms="wav"): workdir is os.getcwd()
StandaloneTemplate ==
    [cwd |-> PStr(Getcwd \o << <<SourceName>> >>),
     datasets |-> PStr(Getcwd \o << <<"datasets">> >>),
     figures |-> PStr(Getcwd \o << <<"figures">> >>),
     logs |-> PStr(Getcwd \o << <<"logs">> >>),
     ds_file |-> PStr(Getcwd \o << <<"datasets">>, <<SourceName, ".h5">> >>),
     stations_file |->
         PStr(Getcwd \o << <<SourceName>>, <<"STATIONS">> >>),
     responses |-> PStr(Getcwd \o << <<"input">>, <<"responses">> >>),
     waveforms |-> PStr(<< <<"wav">> >>),
     synthetics |->
         PStr(Getcwd \o << <<"input">>, <<"synthetics">>, <<SourceName>> >>),
     adjsrcs |-> PStr(Getcwd \o << <<SourceName>>, <<"adjsrcs">> >>),
     event_figures |-> PStr(Getcwd \o << <<"figures">>, <<SourceName>> >>)]

\* PathStructure.seisflows(sfpaths=PATH) with PATH.SOLVER = /solver,
\* PATH.PREPROCESS = /pre and PATH.DATA None
SeisflowsTemplate ==
    LET solver == << <<"/">>, <<"solver">>, <<SourceName>> >>
        pre == << <<"/">>, <<"pre">> >>
    IN  [cwd |-> PStr(solver),
         datasets |-> PStr(pre \o << <<"datasets">> >>),
         figures |-> PStr(pre \o << <<"figures">> >>),
         logs |-> PStr(pre \o << <<"logs">> >>),
         ds_file |-> PStr(pre \o << <<"datasets">>, <<SourceName, ".h5">> >>),
         stations_file |-> PStr(solver \o << <<"DATA">>, <<"STATIONS">> >>),
         responses |-> PList(<<>>),
         waveforms |-> PList(<< solver \o << <<"traces">>, <<"obs">> >> >>),
         synthetics |-> PList(<< solver \o << <<"traces">>, <<"syn">> >> >>),
         adjsrcs |-> PList(<< solver \o << <<"traces">>, <<"adj">> >> >>),
         event_figures |-> PStr(pre \o << <<"figures">>, <<SourceName>> >>)]

PathTemplates == {StandaloneTemplate, SeisflowsTemplate}

\* str.format(source_name=...): every "{source_name}" is replaced, a string
\* without format braces is not affected
StrFormat(path, source_name) ==
    [i \in DOMAIN path |->
        [j \in DOMAIN path[i] |->
            IF path[i][j] = SourceName THEN source_name ELSE path[i][j]]]

\* os.path.abspath: a relative path is joined to the working directory
Abspath(path) ==
    IF path # <<>> /\ path[1] = <<"/">> THEN path ELSE Getcwd \o path

\* lines 245-250 and 281-282: the formatted value of one attribute
FormatValue(req_paths, source_name) ==
    LET list == IF req_paths.py = "str" THEN <<req_paths.v>> ELSE req_paths.v
        fmt_paths == [i \in DOMAIN list |->
                         Abspath(StrFormat(list[i], source_name))]
    IN  IF Len(fmt_paths) = 1 THEN PStr(fmt_paths[1]) ELSE PList(fmt_paths)

\* The objects of the process: a sequence indexed by reference, with the
\* Pyaflowa's self.config and self.path_structure at the first two places.
ConfigRef == 1
PathRef == 2

DeepCopy_SameObject(objs, ref) == [objs |-> objs, ref |-> ref]

\* copy.deepcopy(obj): a new object with equal attributes
DeepCopy(objs, ref) ==
    [objs |-> Append(objs, objs[ref]), ref |-> Len(objs) + 1]

\* setattr(obj, key, value)
SetAttr(objs, ref, key, value) ==
    [objs EXCEPT ![ref] = [@ EXCEPT ![key] = value]]

RECURSIVE FormatAttrs(_, _, _, _, _, _)
\* the loop of format over the roles k .. n: getattr(self, key) is read,
\* setattr(path_structure_copy, key, fmt_paths) is written
FormatAttrs(objs, self, copy, k, n, source_name) ==
    IF k > n THEN objs
    ELSE LET key == REQUIRED_PATHS[k]
         IN  FormatAttrs(SetAttr(objs, copy, key,
                                 FormatValue(objs[self][key], source_name)),
                         self, copy, k + 1, n, source_name)

\* the place of stations_file in _REQUIRED_PATHS
StationsFileIndex ==
    CHOOSE k \in DOMAIN REQUIRED_PATHS : REQUIRED_PATHS[k] = "stations_file"

\* PathStructure.format(source_name=...) on the object self, with mkdirs
\* True: when the stations file does not exist it raises before the
\* setattr of that role.  Returns the objects and the reference returned.
FormatObject(objs, self, source_name, sf_exists_) ==
    LET c == DeepCopy(objs, self)
        n == IF sf_exists_ THEN Len(REQUIRED_PATHS) ELSE StationsFileIndex - 1
    IN  [objs |-> FormatAttrs(c.objs, self, c.ref, 1, n, source_name),
         ref |-> c.ref,
         exc |-> IF sf_exists_ THEN "none" ELSE "FileNotFoundError"]

\* setup, lines 419-434, on the objects of the process: the references of
\* the event's path structure and Config
SetupEvent(objs, source_name, sf_exists_) ==
    LET f == FormatObject(objs, PathRef, source_name, sf_exists_)
    IN  IF f.exc # "none"
        THEN [objs |-> f.objs, paths |-> f.ref, config |-> 0, exc |-> f.exc]
        ELSE LET c == DeepCopy(f.objs, ConfigRef)
                 config == SetupConfig(c.objs[c.ref], source_name,
                                       c.objs[f.ref])
             IN  [objs |-> [c.objs EXCEPT ![c.ref] = config],
                  paths |-> f.ref, config |-> c.ref, exc |-> "none"]

\* ================================================================ variables
VARIABLES
    \* --- one event run (process_event)
    pc,               \* "start", "loop", "done", "raised"
    plot,             \* Pyaflowa.plot
    cfg,              \* Pyaflowa.config: iteration and step_count
    kw,               \* the fix_windows keyword passed on to process_station
    codes_arg,        \* the codes argument: given or None
    sf_exists,        \* the event's STATIONS file exists
    codes,            \* the station code list of the loop
    idx,              \* number of process_station calls made
    io,               \* the IO record of the event
    fig_files,        \* files in io.paths.event_figures
    adj_files,        \* files in io.paths.adjsrcs
    stations_adjoint, \* lines of STATIONS_ADJOINT
    result,           \* what process_event returned or raised
    last,             \* the Manager's behaviour in the last process_station
    seen,             \* totals over the Manager behaviours handed out so far
    \* --- multi_event_process
    mep_pc,           \* "start", "collect", "returned", "raised"
    mep_sources,      \* source_names
    mep_kwargs,       \* the keys of **kwargs, in order
    mep_tasks,        \* the futures of executor.map
    mep_next,         \* index of the next future whose result is taken
    mep_misfits,      \* the misfits dict, as a set of <<key, result>>
    \* --- _check_fix_windows alone
    fw_in,            \* (iteration, step_count, policy, begin)
    fw_out,           \* its outcome; calls counts the evaluations
    fw_again,         \* outcome of a later call (repeated, or fed its output)
    \* --- one Manager (manager_withcrate.py)
    mgr_cfg,          \* config.event_id, ds given, event content, empty
    mgr_gatherer,     \* Manager.gatherer
    mgr_crate,        \* Manager.crate
    mgr_ds,           \* auxiliary data of the dataset: <<type, station, comp>>
    mgr_last,         \* the last Manager operation and what it issued
    mgr_nops,         \* number of Manager operations made
    \* --- write_adj_src_to_ascii alone
    wa_in,            \* the AdjointSources of the dataset
    wa_files,         \* the files of pathout, None before the call
    \* --- several events set up in one process
    pr_cfg,           \* the Config the Pyaflowa was made with
    pr_self,          \* objects: <<self.config, self.path_structure>>
    pr_loggers,       \* the handlers of each process-wide logger
    pr_logs,          \* per handler, the events whose records it wrote
    pr_ios,           \* the IO instances returned by setup, in order
    pr_heap,          \* the list objects of the process
    pr_ds,            \* the events whose dataset was cleaned and configured
    pr_last,          \* the last call and the exception that left it
    \* --- write_misfit and write_stations_adjoint on one dataset
    wd_ds,            \* the dataset
    wd_misfit,        \* the last write_misfit call: step, file, exception
    wd_stations,      \* the last write_stations_adjoint call
    \* --- one Inspector
    insp,             \* srcrcv (its keys), _event_ids, _stations
    insp_last,        \* the last property read and the list it returned
    insp_n,           \* number of append calls made
    \* --- PathStructure.format alone
    pf_in,            \* the structure, mkdirs and the paths that existed
    pf_fs,            \* the paths that exist
    pf_out            \* the exception that left format, None before the call

ev_vars == <<pc, plot, cfg, kw, codes_arg, sf_exists, codes, idx, io,
             fig_files, adj_files, stations_adjoint, result, last, seen>>
mep_vars == <<mep_pc, mep_sources, mep_kwargs, mep_tasks, mep_next,
              mep_misfits>>
fw_vars == <<fw_in, fw_out, fw_again>>
mgr_vars == <<mgr_cfg, mgr_gatherer, mgr_crate, mgr_ds, mgr_last, mgr_nops>>
wa_vars == <<wa_in, wa_files>>
pr_vars ==
    <<pr_cfg, pr_self, pr_loggers, pr_logs, pr_ios, pr_heap, pr_ds, pr_last>>
pf_vars == <<pf_in, pf_fs, pf_out>>
wd_vars == <<wd_ds, wd_misfit, wd_stations>>
insp_vars == <<insp, insp_last, insp_n>>
util_vars == <<wa_vars, pr_vars, pf_vars, wd_vars, insp_vars>>
vars == <<ev_vars, mep_vars, fw_vars, mgr_vars, util_vars>>

\* ------------------------------------------------------------ event inputs
RECURSIVE SeqsUpTo(_, _)
\* all sequences over S of length at most n
SeqsUpTo(S, n) ==
    IF n = 0 THEN { <<>> }
    ELSE LET shorter == SeqsUpTo(S, n - 1)
         IN  shorter \cup { Append(s, x) : s \in shorter, x \in S }

\* (iteration, step_count) of the runs modelled: the first evaluation and a
\* later line-search step.
EventConfigs ==
    { [iteration |-> 1, step_count |-> 0],
      [iteration |-> 2, step_count |-> 1] }

\* fix_windows values of the event runs: the default and an invalid string
EventPolicies == { [t |-> "bool", v |-> "False"], [t |-> "str", v |-> "foo"] }

NoLast ==
    [gather |-> "-", proc |-> "-", nwin |-> 0, calls |-> <<>>,
     exc |-> "none", status |-> -1]

NoSeen ==
    [misfit |-> 0, nwin |-> 0, status1 |-> 0, flow_exc |-> 0,
     adj_stations |-> {}]

\* Adjoint-source files an earlier run of the same event left in
\* io.paths.adjsrcs: none, or those of station XX.KNZ.
EarlierAdjFiles == { {}, { <<"XX", "KNZ", c>> : c \in ComponentList } }

EvIdle ==
    /\ pc = "idle" /\ plot = FALSE
    /\ cfg = [iteration |-> 1, step_count |-> 0]
    /\ kw = [t |-> "bool", v |-> "False"]
    /\ codes_arg = [given |-> FALSE, codes |-> <<>>]
    /\ sf_exists = TRUE /\ codes = <<>> /\ idx = 0 /\ io = NewIO
    /\ fig_files = {} /\ adj_files = {} /\ stations_adjoint = <<>>
    /\ result = Pending /\ last = NoLast /\ seen = NoSeen

EvInit ==
    /\ pc = "start"
    /\ plot \in BOOLEAN
    /\ cfg \in EventConfigs
    /\ kw \in EventPolicies
    /\ codes_arg \in { [given |-> FALSE, codes |-> <<>>] } \cup
                     { [given |-> TRUE, codes |-> c] :
                         c \in SeqsUpTo(Codes, MaxCodes) }
    /\ sf_exists \in BOOLEAN
    /\ codes = <<>> /\ idx = 0 /\ io = NewIO
    /\ fig_files = {} /\ adj_files \in EarlierAdjFiles
    /\ stations_adjoint = <<>>
    /\ result = Pending /\ last = NoLast /\ seen = NoSeen

\* ------------------------------------------------------------ event actions
\* process_event, lines 360-365: setup, then the code list
Setup ==
    /\ pc = "start"
    /\ IF SetupRaises(sf_exists)
       THEN /\ pc' = "raised"
            /\ result' = Raised("FileNotFoundError", "setup")
            /\ UNCHANGED <<codes, io>>
       ELSE /\ pc' = "loop"
            /\ io' = NewIO
            /\ codes' = IF codes_arg.given THEN codes_arg.codes
                        ELSE ReadStationCodes(StationsFile)
            /\ UNCHANGED result
    /\ UNCHANGED <<plot, cfg, kw, codes_arg, sf_exists, idx, fig_files,
                   adj_files, stations_adjoint, last, seen>>
    /\ UNCHANGED <<mep_vars, fw_vars, mgr_vars, util_vars>>

\* The outcome of the processing chunk of process_station for code when the
\* Manager behaves as beh: "-" when the chunk is not reached, "Exception"
\* also when _check_fix_windows raises.
ProcOutcome(code, beh) ==
    IF Len(code) # 4 \/ beh.gather # "ok" THEN "-"
    ELSE IF CheckFixWindows(cfg.iteration, cfg.step_count, kw,
                            StandaloneBegin).exc # "none"
    THEN "Exception"
    ELSE beh.flow

\* What the Manager did in the process_station call that returned r: the
\* outcome of gather and of the processing chunk, and the number of windows
\* of a station whose flow returned.
LastOf(code, beh, r) ==
    [gather |-> IF Len(code) = 4 THEN beh.gather ELSE "-",
     proc   |-> ProcOutcome(code, beh),
     nwin   |-> IF ProcOutcome(code, beh) = "ok" THEN beh.stats.nwin ELSE 0,
     calls  |-> r.calls, exc |-> r.exc, status |-> r.status]

\* Totals over the behaviours handed to process_station so far: misfit and
\* windows of the stations whose flow returned, their number, and the number
\* of stations whose processing chunk raised an uncategorized exception.
SeenAfter(s, code, beh) ==
    LET ok == ProcOutcome(code, beh) = "ok"
        uncategorized == ProcOutcome(code, beh) = "Exception"
    IN  [misfit   |-> s.misfit + (IF ok THEN beh.stats.misfit ELSE 0),
         nwin     |-> s.nwin + (IF ok THEN beh.stats.nwin ELSE 0),
         status1  |-> s.status1 + (IF ok THEN 1 ELSE 0),
         flow_exc |-> s.flow_exc + (IF uncategorized THEN 1 ELSE 0),
         adj_stations |-> s.adj_stations]

\* The stations whose adjoint sources mgmt.write_adjsrcs has written in this
\* run, after the process_station call that returned r.
WroteAdjsrcs(s, code, beh, r) ==
    IF /\ r.exc = "none" /\ r.status = 1 /\ beh.stats.nwin > 0
    THEN [s EXCEPT !.adj_stations = @ \cup { <<code[1], code[2]>> }]
    ELSE s

\* process_event, lines 370-372: one pass of the station loop
Station ==
    /\ pc = "loop"
    /\ idx < Len(codes)
    /\ \E beh \in Behaviours :
         LET code == codes[idx + 1]
             r == ProcessStation(io, fig_files, adj_files, code, beh, plot,
                                 cfg, StandaloneBegin, kw)
         IN  /\ io' = r.io
             /\ fig_files' = r.fig
             /\ adj_files' = r.adj
             /\ last' = LastOf(code, beh, r)
             /\ seen' = WroteAdjsrcs(SeenAfter(seen, code, beh), code, beh, r)
             /\ IF r.exc # "none"
                THEN /\ pc' = "raised"
                     /\ result' = Raised(r.exc, "process_station")
                ELSE UNCHANGED <<pc, result>>
    /\ idx' = idx + 1
    /\ UNCHANGED <<plot, cfg, kw, codes_arg, sf_exists, codes,
                   stations_adjoint>>
    /\ UNCHANGED <<mep_vars, fw_vars, mgr_vars, util_vars>>

\* process_event, lines 374-376: finalize and return
FinalizeEvent ==
    /\ pc = "loop"
    /\ idx = Len(codes)
    /\ LET f == Finalize(io, fig_files, adj_files, StationsFile)
       IN  /\ fig_files' = f.fig
           /\ stations_adjoint' = IF f.written THEN f.sta_adj
                                  ELSE stations_adjoint
           /\ result' = f.result
           /\ pc' = IF f.result.kind = "raised" THEN "raised" ELSE "done"
    /\ UNCHANGED <<plot, cfg, kw, codes_arg, sf_exists, codes, idx, io,
                   adj_files, last, seen>>
    /\ UNCHANGED <<mep_vars, fw_vars, mgr_vars, util_vars>>

\* ====================================================== multi_event_process
\* Source names as <<directory, basename>>
Sources == { <<"", "ev1">>, <<"", "ev2">>, <<"run", "ev1">> }

Basename(source_name) == source_name[2]

\* Keyword names, each the sequence of its characters; <<>> is the empty
\* string, which ** unpacking of a dict admits as a key.
KwargKeys == { <<>>, <<"x">>, <<"p", "q">> }

\* The key lists of a **kwargs dict: its keys are distinct.
KwargLists ==
    { k \in SeqsUpTo(KwargKeys, MaxKwargs) :
        \A i, j \in 1..Len(k) : i # j => k[i] # k[j] }

\* ch.split(".") for one character ch
SplitDot(ch) == IF ch = "." THEN <<"", "">> ELSE <<ch>>

\* process_event(source_name, key): iterating over the string key as codes
\* yields its characters.
KeyCodes(key) == [i \in 1..Len(key) |-> SplitDot(key[i])]

Min(a, b) == IF a < b THEN a ELSE b

\* executor.map(self.process_event, source_names, kwargs): one future per
\* element of zip(source_names, kwargs), and iterating a dict yields its keys.
MapTasks(source_names, kwargs) ==
    [i \in 1..Min(Len(source_names), Len(kwargs)) |->
        [source |-> source_names[i], key |-> kwargs[i],
         state |-> "pending", result |-> Pending]]

\* misfits[os.path.basename(source_name)] = misfit
SetItem(misfits, key, value) ==
    { m \in misfits : m[1] # key } \cup { <<key, value>> }

MepIdle ==
    /\ mep_pc = "idle" /\ mep_sources = <<>> /\ mep_kwargs = <<>>
    /\ mep_tasks = <<>> /\ mep_next = 1 /\ mep_misfits = {}

MepInit ==
    /\ mep_pc = "start"
    /\ mep_sources \in SeqsUpTo(Sources, MaxSources)
    /\ mep_kwargs \in KwargLists
    /\ mep_tasks = <<>> /\ mep_next = 1 /\ mep_misfits = {}

\* lines 391-395: the executor is created and map submits every call
MepSubmit ==
    /\ mep_pc = "start"
    /\ mep_pc' = "collect"
    /\ mep_tasks' = MapTasks(mep_sources, mep_kwargs)
    /\ UNCHANGED <<mep_sources, mep_kwargs, mep_next, mep_misfits>>
    /\ UNCHANGED <<ev_vars, fw_vars, mgr_vars, util_vars>>

\* A worker process runs one pending call of process_event to its end.  The
\* event's STATIONS file may be missing; no keyword reaches process_event,
\* so fix_windows has its default.
MepWorker ==
    /\ mep_pc = "collect"
    /\ \E i \in 1..Len(mep_tasks) :
         /\ mep_tasks[i].state = "pending"
         /\ \E sf \in BOOLEAN, beh \in Behaviours, plot_on \in BOOLEAN :
              LET codes_ == KeyCodes(mep_tasks[i].key)
                  res == ProcessEvent(sf, codes_,
                                      [j \in 1..Len(codes_) |-> beh],
                                      plot_on,
                                      [iteration |-> 1, step_count |-> 0],
                                      StandaloneBegin,
                                      [t |-> "bool", v |-> "False"],
                                      StationsFile)
              IN  mep_tasks' = [mep_tasks EXCEPT
                                  ![i].state = "done", ![i].result = res]
    /\ UNCHANGED <<mep_pc, mep_sources, mep_kwargs, mep_next, mep_misfits>>
    /\ UNCHANGED <<ev_vars, fw_vars, mgr_vars, util_vars>>

\* A worker process dies: the pool is broken and every call that has not
\* finished fails with BrokenProcessPool.
MepCrash ==
    /\ mep_pc = "collect"
    /\ \E i \in 1..Len(mep_tasks) : mep_tasks[i].state = "pending"
    /\ mep_tasks' =
         [i \in 1..Len(mep_tasks) |->
            IF mep_tasks[i].state = "pending"
            THEN [mep_tasks[i] EXCEPT
                    !.state = "broken",
                    !.result = Raised("BrokenProcessPool", "worker")]
            ELSE mep_tasks[i]]
    /\ UNCHANGED <<mep_pc, mep_sources, mep_kwargs, mep_next, mep_misfits>>
    /\ UNCHANGED <<ev_vars, fw_vars, mgr_vars, util_vars>>

\* lines 393-396: the next result of the map iterator, in submission order.
\* A call that raised re-raises here and leaves multi_event_process; the
\* iterator cancels the calls still pending.
MepCollect ==
    /\ mep_pc = "collect"
    /\ mep_next <= Len(mep_tasks)
    /\ mep_tasks[mep_next].state \in {"done", "broken"}
    /\ LET t == mep_tasks[mep_next]
       IN  IF t.result.kind = "raised"
           THEN /\ mep_pc' = "raised"
                /\ mep_tasks' =
                     [i \in 1..Len(mep_tasks) |->
                        IF mep_tasks[i].state = "pending"
                        THEN [mep_tasks[i] EXCEPT !.state = "cancelled"]
                        ELSE mep_tasks[i]]
                /\ UNCHANGED <<mep_next, mep_misfits>>
           ELSE /\ mep_misfits' =
                     SetItem(mep_misfits, Basename(t.source), t.result)
                /\ mep_next' = mep_next + 1
                /\ UNCHANGED <<mep_pc, mep_tasks>>
    /\ UNCHANGED <<mep_sources, mep_kwargs>>
    /\ UNCHANGED <<ev_vars, fw_vars, mgr_vars, util_vars>>

\* line 398: return misfits
MepReturn ==
    /\ mep_pc = "collect"
    /\ mep_next > Len(mep_tasks)
    /\ mep_pc' = "returned"
    /\ UNCHANGED <<mep_sources, mep_kwargs, mep_tasks, mep_next, mep_misfits>>
    /\ UNCHANGED <<ev_vars, fw_vars, mgr_vars, util_vars>>

\* ===================================================== _check_fix_windows
FwInputs ==
    [iteration : 1..MaxIter, step_count : 0..MaxStep, policy : Policies,
     begin : {StandaloneBegin} \cup 1..MaxIter]

\* no later call made yet
NoAgain == [kind |-> "none", exc |-> "none", fix |-> FALSE]

FwIdle ==
    /\ fw_in = [iteration |-> 1, step_count |-> 0,
                policy |-> [t |-> "bool", v |-> "False"],
                begin |-> StandaloneBegin]
    /\ fw_out = [calls |-> 0, exc |-> "none", fix |-> FALSE]
    /\ fw_again = NoAgain

FwInit ==
    /\ fw_in \in FwInputs
    /\ fw_out = [calls |-> 0, exc |-> "none", fix |-> FALSE]
    /\ fw_again = NoAgain

\* process_station line 523: kwargs = self._check_fix_windows(**kwargs)
FwCall ==
    /\ fw_out.calls = 0
    /\ LET r == CheckFixWindows(fw_in.iteration, fw_in.step_count,
                                fw_in.policy, fw_in.begin)
       IN  fw_out' = [calls |-> 1, exc |-> r.exc, fix |-> r.fix]
    /\ UNCHANGED <<fw_in, fw_again>>
    /\ UNCHANGED <<ev_vars, mep_vars, mgr_vars, util_vars>>

\* The bool b as a fix_windows argument
BoolPolicy(b) == [t |-> "bool", v |-> IF b THEN "True" ELSE "False"]

\* the next station of the same event: process_station line 523 once more,
\* with the same self.config, self.begin and fix_windows
FwRepeat ==
    /\ fw_out.calls = 1
    /\ fw_again = NoAgain
    /\ LET r == CheckFixWindows(fw_in.iteration, fw_in.step_count,
                                fw_in.policy, fw_in.begin)
       IN  fw_again' = [kind |-> "repeat", exc |-> r.exc, fix |-> r.fix]
    /\ UNCHANGED <<fw_in, fw_out>>
    /\ UNCHANGED <<ev_vars, mep_vars, mgr_vars, util_vars>>

\* _check_fix_windows(**kwargs) on the kwargs an earlier call returned
\* (lines 624-626: kwargs["fix_windows"] = fix_windows_out)
FwFeedBack ==
    /\ fw_out.calls = 1
    /\ fw_out.exc = "none"
    /\ fw_again = NoAgain
    /\ LET r == CheckFixWindows(fw_in.iteration, fw_in.step_count,
                                BoolPolicy(fw_out.fix), fw_in.begin)
       IN  fw_again' = [kind |-> "feedback", exc |-> r.exc, fix |-> r.fix]
    /\ UNCHANGED <<fw_in, fw_out>>
    /\ UNCHANGED <<ev_vars, mep_vars, mgr_vars, util_vars>>

\* ================================================================= Manager
\* no Manager operation made yet
NoOp ==
    [op |-> "none", arg |-> "", requests |-> <<>>, failed |-> FALSE,
     new_gatherer |-> FALSE, queries |-> 0, exc |-> "none"]

\* Managers modelled: config.event_id, whether a dataset is given, whether
\* the event has a source-time-function duration, and the empty argument
ManagerConfigs ==
    { [event_id |-> Str("ev"), has_ds |-> TRUE, stf |-> "duration",
       empty |-> FALSE],
      [event_id |-> Str("ev"), has_ds |-> FALSE,
       stf |-> "no_focal_mechanism", empty |-> FALSE],
      [event_id |-> Str("ev"), has_ds |-> TRUE, stf |-> "no_moment_tensor",
       empty |-> TRUE],
      [event_id |-> PyNone, has_ds |-> FALSE,
       stf |-> "no_source_time_function", empty |-> FALSE] }

MgrIdle ==
    /\ mgr_cfg = [event_id |-> PyNone, has_ds |-> FALSE,
                  stf |-> "no_moment_tensor", empty |-> TRUE]
    /\ mgr_gatherer = PyNone
    /\ mgr_crate = NewCrate
    /\ mgr_ds = {}
    /\ mgr_last = NoOp
    /\ mgr_nops = 0

\* Manager.__init__(config, ds, empty), the event query of launch answered
MgrInit ==
    /\ mgr_cfg \in ManagerConfigs
    /\ LET l == IF mgr_cfg.empty
                THEN [gatherer |-> PyNone, crate |-> NewCrate]
                ELSE Launch(PyNone, NewCrate, mgr_cfg.event_id, FALSE,
                            PyNone, "ok")
       IN  mgr_gatherer = l.gatherer /\ mgr_crate = l.crate
    /\ mgr_ds = {}
    /\ mgr_last = NoOp
    /\ mgr_nops = 0

MgrGatherData ==
    \E code \in ManagerStations, overwrite \in BOOLEAN,
       fail \in {"none", "station", "observed", "synthetic"},
       cobs \in ObservedContents, csyn \in SyntheticContents :
        \* a request that raises returns no stream, nor do the ones after it
        /\ (fail \in {"station", "observed"}) => cobs = WindowOnZ
        /\ (fail # "none") => csyn = WindowOnZ
        \* only a request that is issued can raise or return a stream
        /\ mgr_gatherer = PyNone =>
               (fail = "none" /\ cobs = WindowOnZ /\ csyn = WindowOnZ)
        /\ (~overwrite /\ Truthy(mgr_crate.inv)) => fail # "station"
        /\ (~overwrite /\ Truthy(mgr_crate.st_obs)) =>
               (fail # "observed" /\ cobs = WindowOnZ)
        /\ (~overwrite /\ Truthy(mgr_crate.st_syn)) =>
               (fail # "synthetic" /\ csyn = WindowOnZ)
        /\ LET r == GatherData(mgr_crate, mgr_gatherer, code, overwrite, fail,
                               cobs, csyn)
           IN  /\ mgr_crate' = r.crate
               /\ mgr_last' = [op |-> "gather_data",
                               arg |-> IF overwrite THEN "overwrite" ELSE "",
                               requests |-> r.requests,
                               failed |-> r.stopped,
                               new_gatherer |-> FALSE,
                               queries |-> 0, exc |-> "none"]
               /\ UNCHANGED <<mgr_cfg, mgr_gatherer, mgr_ds>>
               /\ mgr_nops < MaxOps /\ mgr_nops' = mgr_nops + 1
               /\ UNCHANGED <<ev_vars, mep_vars, fw_vars, util_vars>>

MgrPreprocess ==
    \E obs \in {"Stream", "None"}, syn \in {"Stream", "None"} :
        \* the synthetic stream is not reached when the observed one failed
        /\ obs = "None" => syn = "None"
        /\ LET r == Preprocess(mgr_crate, mgr_cfg.stf, obs, syn)
           IN  /\ mgr_crate' = r.crate
               /\ mgr_last' = [NoOp EXCEPT !.op = "preprocess", !.exc = r.exc]
               /\ UNCHANGED <<mgr_cfg, mgr_gatherer, mgr_ds>>
               /\ mgr_nops < MaxOps /\ mgr_nops' = mgr_nops + 1
               /\ UNCHANGED <<ev_vars, mep_vars, fw_vars, util_vars>>

MgrRunPyflex ==
    \* without a dataset nothing is written
    \E wfail \in (IF mgr_cfg.has_ds THEN 0..MaxWriteFail ELSE {0}) :
        LET r == RunPyflex(mgr_crate, mgr_ds, mgr_cfg.has_ds, wfail)
        IN  /\ mgr_crate' = r.crate
            /\ mgr_ds' = r.ds
            /\ mgr_last' = [NoOp EXCEPT !.op = "run_pyflex", !.exc = r.exc,
                                        !.failed = r.write_failed]
            /\ UNCHANGED <<mgr_cfg, mgr_gatherer>>
            /\ mgr_nops < MaxOps /\ mgr_nops' = mgr_nops + 1
            /\ UNCHANGED <<ev_vars, mep_vars, fw_vars, util_vars>>

MgrRunPyadjoint ==
    \E wfail \in (IF mgr_cfg.has_ds THEN 0..MaxWriteFail ELSE {0}) :
        LET r == RunPyadjoint(mgr_crate, mgr_ds, mgr_cfg.has_ds, wfail)
        IN  /\ mgr_crate' = r.crate
            /\ mgr_ds' = r.ds
            /\ mgr_last' = [NoOp EXCEPT !.op = "run_pyadjoint",
                                        !.exc = r.exc,
                                        !.failed = r.write_failed]
            /\ UNCHANGED <<mgr_cfg, mgr_gatherer>>
            /\ mgr_nops < MaxOps /\ mgr_nops' = mgr_nops + 1
            /\ UNCHANGED <<ev_vars, mep_vars, fw_vars, util_vars>>

MgrReset ==
    \E choice \in {"soft", "hard"}, query \in {"ok", "raise"} :
        \* only a soft reset with an event id queries the event
        /\ (choice = "hard" \/ mgr_cfg.event_id = PyNone) => query = "ok"
        /\ LET r == Reset(mgr_gatherer, mgr_cfg.event_id, choice, query)
           IN  /\ mgr_gatherer' = r.gatherer
               /\ mgr_crate' = r.crate
               /\ mgr_last' = [op |-> "reset", arg |-> choice,
                               requests |-> <<>>, failed |-> FALSE,
                               new_gatherer |-> r.new_gatherer,
                               queries |-> r.queries, exc |-> r.exc]
               /\ UNCHANGED <<mgr_cfg, mgr_ds>>
               /\ mgr_nops < MaxOps /\ mgr_nops' = mgr_nops + 1
               /\ UNCHANGED <<ev_vars, mep_vars, fw_vars, util_vars>>

\* ========================================================= specifications
\* ------------------------------------------- write_adj_src_to_ascii alone
WaIdle == wa_in = PyNone /\ wa_files = PyNone

WaInit == wa_in \in WaInputs /\ wa_files = PyNone

WaWrite ==
    /\ wa_files = PyNone
    /\ wa_files' = WriteAdjSrcToAscii(wa_in)
    /\ UNCHANGED wa_in
    /\ UNCHANGED <<ev_vars, mep_vars, fw_vars, mgr_vars, pr_vars, pf_vars,
                   wd_vars, insp_vars>>

\* ------------------------------------- several events set up in one process
PrFresh ==
    /\ pr_loggers = [l \in LoggerSet |-> <<>>]
    /\ pr_logs = <<>>
    /\ pr_ios = <<>>
    /\ pr_heap = <<>>
    /\ pr_ds = {}
    /\ pr_last = [op |-> "none", exc |-> "none"]

\* the Configs a Pyaflowa is made with: no event id and no paths yet, the
\* first or a later step of an iteration
PrConfigs ==
    [event_id : {PyNone}, paths : {PyNone}, iteration : 1..MaxIter,
     step_count : {0, MaxStep}, client : {Str("GEONET")}]

PrIdle ==
    /\ PrFresh /\ pr_self = <<>>
    /\ pr_cfg = [iteration |-> 1, step_count |-> 0, client |-> PyNone]

\* Pyaflowa(structure, config): self.config is the Config it was given
PrInit ==
    /\ PrFresh /\ pr_cfg \in PrConfigs
    /\ \E template \in PathTemplates : pr_self = <<pr_cfg, template>>

\* ------------------------------------------------ PathStructure.format alone
PfIdle == pf_in = PyNone /\ pf_fs = {} /\ pf_out = PyNone

PfInit ==
    /\ \E structure \in Structures :
          pf_in \in [structure : {structure}, mkdirs : BOOLEAN,
                     fs : FileSystems(structure)]
    /\ pf_fs = pf_in.fs /\ pf_out = PyNone

PfFormat ==
    /\ pf_out = PyNone
    /\ LET r == Format(pf_in.structure, pf_fs, pf_in.mkdirs)
       IN  pf_fs' = r.fs /\ pf_out' = Str(r.exc)
    /\ UNCHANGED pf_in
    /\ UNCHANGED <<ev_vars, mep_vars, fw_vars, mgr_vars, wa_vars, pr_vars,
                   wd_vars, insp_vars>>

\* --------------------------- write_misfit and write_stations_adjoint alone
WdIdle == wd_ds = PyNone /\ wd_misfit = PyNone /\ wd_stations = PyNone

WdInit == wd_ds \in WdDatasets /\ wd_misfit = PyNone /\ wd_stations = PyNone

WdWriteMisfit ==
    /\ \E step \in WdSteps, numeric \in {"float", "numpy.float64"} :
         LET r == WriteMisfit(wd_ds, step, numeric)
         IN  wd_misfit' = [step |-> step, kind |-> r.kind, num |-> r.num,
                           den |-> r.den, exc |-> r.exc]
    /\ UNCHANGED <<wd_ds, wd_stations>>
    /\ UNCHANGED <<ev_vars, mep_vars, fw_vars, mgr_vars, wa_vars, pr_vars,
                   pf_vars, insp_vars>>

WdWriteStationsAdjoint ==
    /\ \E step \in WdSteps :
         LET r == WriteStationsAdjointOfDs(wd_ds, WdStationsFile, step)
         IN  wd_stations' = [step |-> step, lines |-> r.lines,
                             exc |-> r.exc]
    /\ UNCHANGED <<wd_ds, wd_misfit>>
    /\ UNCHANGED <<ev_vars, mep_vars, fw_vars, mgr_vars, wa_vars, pr_vars,
                   pf_vars, insp_vars>>

\* ------------------------------------------------------- one Inspector
\* Inspector(): no tag and no path
InspInit ==
    /\ insp = [srcrcv |-> <<>>, _event_ids |-> PyNone, _stations |-> PyNone]
    /\ insp_last = PyNone
    /\ insp_n = 0

InspAppend ==
    /\ insp_n < MaxAppends
    /\ \E ds \in InspectorDatasets, srcrcv \in BOOLEAN, opens \in BOOLEAN :
         \* the flags of a dataset that cannot be opened are not looked at
         /\ ~opens => srcrcv
         /\ insp' = [insp EXCEPT !.srcrcv =
                        InspectorAppend(@, ds, srcrcv, opens).keys]
    /\ insp_n' = insp_n + 1
    /\ insp_last' = [op |-> "append", value |-> PyNone]
    /\ UNCHANGED <<ev_vars, mep_vars, fw_vars, mgr_vars, wa_vars, pr_vars,
                   pf_vars, wd_vars>>

InspReadEventIds ==
    /\ LET r == EventIds(insp)
       IN  insp' = r.insp /\ insp_last' = [op |-> "event_ids",
                                           value |-> r.value]
    /\ UNCHANGED insp_n
    /\ UNCHANGED <<ev_vars, mep_vars, fw_vars, mgr_vars, wa_vars, pr_vars,
                   pf_vars, wd_vars>>

InspReadStations ==
    /\ LET r == StationsOf(insp)
       IN  insp' = r.insp /\ insp_last' = [op |-> "stations",
                                           value |-> r.value]
    /\ UNCHANGED insp_n
    /\ UNCHANGED <<ev_vars, mep_vars, fw_vars, mgr_vars, wa_vars, pr_vars,
                   pf_vars, wd_vars>>

\* the other specifications have no Inspector
InspIdle == insp = PyNone /\ insp_last = PyNone /\ insp_n = 0

UtilIdle == WaIdle /\ PrIdle /\ PfIdle /\ WdIdle /\ InspIdle

\* setup(source_name); the objects it leaves that self still refers to
PrSetup ==
    /\ Len(pr_ios) < MaxEvents
    /\ \E source_name \in PrSources, exists \in BOOLEAN :
         LET s == SetupEvent(pr_self, source_name, exists)
         IN  /\ pr_self' = SubSeq(s.objs, ConfigRef, PathRef)
             /\ IF s.exc # "none"
                THEN /\ pr_last' = [op |-> "setup", exc |-> s.exc]
                     /\ UNCHANGED <<pr_loggers, pr_logs, pr_ios, pr_heap,
                                    pr_ds>>
                ELSE LET handler == Len(pr_logs) + 1
                         new == SetupIO(pr_heap, s.objs[s.config],
                                        source_name)
                     IN  /\ pr_ds' = pr_ds \cup {source_name}
                         /\ pr_loggers' =
                                CreateEventLogHandler(pr_loggers, handler)
                         /\ pr_logs' = Append(pr_logs, {})
                         /\ pr_ios' = Append(pr_ios, new.io)
                         /\ pr_heap' = new.heap
                         /\ pr_last' = [op |-> "setup", exc |-> "none"]
    /\ UNCHANGED pr_cfg
    /\ UNCHANGED <<ev_vars, mep_vars, fw_vars, mgr_vars, wa_vars, pf_vars,
                   wd_vars, insp_vars>>

\* process_station(mgmt, code, io) for the next station of the event set
\* up last (the events are processed one after the other); its log
\* records go to io.logger, the "pyatoa" logger of the process
PrStation ==
    /\ pr_ios # <<>>
    /\ \E beh \in PrBehaviours :
         /\ pr_ios[Len(pr_ios)].stations < MaxProcStations
         /\ LET e == Len(pr_ios)
                code == ReadStationCodes(StationsFile)[pr_ios[e].stations + 1]
                r == ProcessStation(IOView(pr_ios[e], pr_heap), {}, {}, code,
                                    beh, TRUE,
                                    [iteration |-> pr_ios[e].config.iteration,
                                     step_count |->
                                         pr_ios[e].config.step_count],
                                    StandaloneBegin,
                                    [t |-> "bool", v |-> "False"])
                written == { pr_loggers["pyatoa"][i] :
                                 i \in DOMAIN pr_loggers["pyatoa"] }
            IN  /\ pr_ios' = [pr_ios EXCEPT
                                 ![e].misfit = r.io.misfit,
                                 ![e].nwin = r.io.nwin,
                                 ![e].stations = r.io.stations,
                                 ![e].processed = r.io.processed,
                                 ![e].exceptions = r.io.exceptions]
                /\ pr_heap' = [pr_heap EXCEPT
                                  ![pr_ios[e].plot_fids] = r.io.plot_fids]
                /\ pr_logs' = [h \in DOMAIN pr_logs |->
                                  IF h \in written THEN pr_logs[h] \cup {e}
                                  ELSE pr_logs[h]]
                /\ pr_last' = [op |-> "process_station", exc |-> r.exc]
    /\ UNCHANGED <<pr_cfg, pr_self, pr_loggers, pr_ds>>
    /\ UNCHANGED <<ev_vars, mep_vars, fw_vars, mgr_vars, wa_vars, pf_vars,
                   wd_vars, insp_vars>>

Init == EvInit /\ MepIdle /\ FwIdle /\ MgrIdle /\ UtilIdle
Next == Setup \/ Station \/ FinalizeEvent
Spec == Init /\ [][Next]_vars

MepNext == MepSubmit \/ MepWorker \/ MepCrash \/ MepCollect \/ MepReturn
InitMulti == EvIdle /\ MepInit /\ FwIdle /\ MgrIdle /\ UtilIdle
SpecMulti == InitMulti /\ [][MepNext]_vars

InitFixWindows == EvIdle /\ MepIdle /\ FwInit /\ MgrIdle /\ UtilIdle
NextFixWindows == FwCall \/ FwRepeat \/ FwFeedBack
SpecFixWindows == InitFixWindows /\ [][NextFixWindows]_vars

InitManager == EvIdle /\ MepIdle /\ FwIdle /\ MgrInit /\ UtilIdle
NextManager ==
    \/ MgrGatherData \/ MgrPreprocess \/ MgrRunPyflex \/ MgrRunPyadjoint
    \/ MgrReset
SpecManager == InitManager /\ [][NextManager]_vars

InitWriteAdj ==
    EvIdle /\ MepIdle /\ FwIdle /\ MgrIdle /\ WaInit /\ PrIdle /\ PfIdle
    /\ WdIdle /\ InspIdle
NextWriteAdj == WaWrite
SpecWriteAdj == InitWriteAdj /\ [][NextWriteAdj]_vars

InitProcess ==
    EvIdle /\ MepIdle /\ FwIdle /\ MgrIdle /\ WaIdle /\ PrInit /\ PfIdle
    /\ WdIdle /\ InspIdle
NextProcess == PrSetup \/ PrStation
SpecProcess == InitProcess /\ [][NextProcess]_vars

InitFormat ==
    EvIdle /\ MepIdle /\ FwIdle /\ MgrIdle /\ WaIdle /\ PrIdle /\ PfInit
    /\ WdIdle /\ InspIdle
NextFormat == PfFormat
SpecFormat == InitFormat /\ [][NextFormat]_vars

InitWriteDs ==
    EvIdle /\ MepIdle /\ FwIdle /\ MgrIdle /\ WaIdle /\ PrIdle /\ PfIdle
    /\ WdInit /\ InspIdle
NextWriteDs == WdWriteMisfit \/ WdWriteStationsAdjoint
SpecWriteDs == InitWriteDs /\ [][NextWriteDs]_vars

InitInspector ==
    EvIdle /\ MepIdle /\ FwIdle /\ MgrIdle /\ WaIdle /\ PrIdle /\ PfIdle
    /\ WdIdle /\ InspInit
NextInspector == InspAppend \/ InspReadEventIds \/ InspReadStations
SpecInspector == InitInspector /\ [][NextInspector]_vars

\* ================================================================ claims
WellFormedCodes == \A i \in 1..Len(codes) : Len(codes[i]) = 4

\* C1: whenever finalize returns a number, the number is
\* 0.5 * io.misfit / io.nwin, and io.misfit and io.nwin are the sums of the
\* misfits and window counts of exactly the stations whose processing ended
\* with status 1.
C1_ScaledMisfit ==
    (pc = "done" /\ result.kind = "num") =>
        /\ io.misfit = seen.misfit
        /\ io.nwin = seen.nwin
        /\ io.processed = seen.status1
        /\ io.nwin > 0
        /\ result.num * (2 * io.nwin) = result.den * io.misfit

\* a number is returned for an event with one processed station and one
\* station whose processing raised
C1_Witness ==
    /\ pc = "done" /\ result.kind = "num"
    /\ io.stations = 2 /\ io.processed = 1 /\ io.exceptions = 1

C3_NoneIffNothingProcessed ==
    pc = "done" => (result.kind = "none" <=> io.processed = 0)

\* C4: a failure of one station (an exception of its gather, flow, plot or
\* write_adjsrcs) never ends the event: once the run is over, every code of
\* the list has been handed to process_station and finalize has been reached.
C4_StationFailureNeverAborts ==
    (WellFormedCodes /\ pc \in {"done", "raised"} /\ result.where # "setup")
        => idx = Len(codes) /\ result.where = "finalize"

\* C5: a station whose gather fails is counted and skipped: io.stations grows
\* by one, the other counters and plot_fids stay, and neither flow nor plot
\* nor write_adjsrcs is invoked for it.
C5_GatherFailure ==
    [][ (idx' = idx + 1 /\ last'.gather \in {"ManagerError", "Exception"})
        => /\ io'.stations = io.stations + 1
           /\ io' = [io EXCEPT !.stations = @ + 1]
           /\ last'.calls = <<"reset", "gather">>
           /\ fig_files' = fig_files
           /\ adj_files' = adj_files ]_vars

\* a gather failure after a station that was processed
C5_Witness ==
    /\ last.gather = "ManagerError" /\ idx = 2
    /\ io.stations = 2 /\ io.processed = 1

\* C6: an exception of the processing chunk that is no ManagerError adds one
\* to io.exceptions and leaves processed, misfit and nwin; a ManagerError
\* leaves io.exceptions; so io.exceptions is the number of stations whose
\* processing raised an uncategorized exception.
C6_Exceptions ==
    /\ [](io.exceptions = seen.flow_exc)
    /\ [][ idx' = idx + 1 =>
            /\ last'.proc = "Exception" =>
                  /\ io'.exceptions = io.exceptions + 1
                  /\ io'.processed = io.processed
                  /\ io'.misfit = io.misfit
                  /\ io'.nwin = io.nwin
            /\ last'.proc = "ManagerError" =>
                  io'.exceptions = io.exceptions ]_vars

\* a ManagerError in the station after one with an uncategorized exception
C6_Witness ==
    idx = 2 /\ io.exceptions = 1 /\ last.proc = "ManagerError"

\* C7: a station that is gathered but gets no window on any component does
\* not count as processed, leaves io.misfit and io.nwin, and writes no
\* adjoint-source file.
C7_NoWindowsNotProcessed ==
    [][ (idx' = idx + 1 /\ last'.gather = "ok" /\ last'.proc = "ok"
            /\ last'.nwin = 0)
        => /\ io'.processed = io.processed
           /\ io'.misfit = io.misfit
           /\ io'.nwin = io.nwin
           /\ adj_files' = adj_files ]_vars

\* The number of process_event calls made for the i-th source name
Invocations(i) ==
    IF i <= Len(mep_tasks) /\ mep_tasks[i].state = "done" THEN 1 ELSE 0

\* C8: multi_event_process calls process_event exactly once per source name,
\* whatever the keyword arguments, and the mapping it returns has an entry
\* for every source name.
C8_EverySourceOnce ==
    mep_pc = "returned" =>
        \A i \in 1..Len(mep_sources) :
            /\ Invocations(i) = 1
            /\ \E m \in mep_misfits : m[1] = Basename(mep_sources[i])

\* C9: when the call for one source fails, the mapping returned still holds
\* the result of every other source.
C9_FailureKeepsOtherResults ==
    \A i, j \in 1..Len(mep_tasks) :
        (/\ mep_pc \in {"returned", "raised"}
         /\ mep_tasks[i].result.kind = "raised"
         /\ mep_tasks[j].state = "done"
         /\ mep_tasks[j].result.kind # "raised")
        => /\ mep_pc = "returned"
           /\ <<Basename(mep_tasks[j].source), mep_tasks[j].result>>
                  \in mep_misfits

\* C10: at iteration 1, step 0 the result is fix_windows = False, whatever
\* the policy.
C10_FirstEvaluation ==
    (fw_out.calls = 1 /\ fw_in.iteration = 1 /\ fw_in.step_count = 0)
        => fw_out.exc = "none" /\ fw_out.fix = FALSE

\* the policy True evaluated at iteration 1, step 0
C10_Witness ==
    /\ fw_out.calls = 1 /\ fw_in.iteration = 1 /\ fw_in.step_count = 0
    /\ fw_in.policy = [t |-> "bool", v |-> "True"]
    /\ fw_out.fix = FALSE

\* C11: with the policy "ITER", in any letter case, the result is False when
\* step_count is 0 and True for every other step count, at every iteration.
C11_IterPolicy ==
    (fw_out.calls = 1 /\ fw_in.policy.t = "str"
       /\ fw_in.policy.v \in {"ITER", "iter"})
        => fw_out.exc = "none" /\ fw_out.fix = (fw_in.step_count # 0)

\* the lower-case "iter" evaluated at a non-zero step of a later iteration
C11_Witness ==
    /\ fw_out.calls = 1 /\ fw_in.policy = [t |-> "str", v |-> "iter"]
    /\ fw_in.iteration = 2 /\ fw_in.step_count = 2
    /\ fw_out.fix = TRUE

\* C12: with the policy "ONCE", in any letter case, the result is False at
\* step 0 of the begin iteration and at iteration 1 step 0, and True at every
\* other (iteration, step), step 0 of later iterations included.
C12_OncePolicy ==
    (fw_out.calls = 1 /\ fw_in.policy.t = "str"
       /\ fw_in.policy.v \in {"ONCE", "Once"})
        => /\ fw_out.exc = "none"
           /\ fw_out.fix = ~(\/ (fw_in.iteration = fw_in.begin
                                    /\ fw_in.step_count = 0)
                              \/ (fw_in.iteration = 1
                                    /\ fw_in.step_count = 0))

\* "Once" at step 0 of the begin iteration, which is not iteration 1
C12_Witness ==
    /\ fw_out.calls = 1 /\ fw_in.policy = [t |-> "str", v |-> "Once"]
    /\ fw_in.iteration = 2 /\ fw_in.begin = 2 /\ fw_in.step_count = 0
    /\ fw_out.fix = FALSE

\* C13: a bool policy is returned as it is at every (iteration, step) but
\* iteration 1 step 0; a second call with the same inputs gives the same
\* outcome, and a call on the returned value gives that value again.
C13_BoolPolicyPure ==
    /\ (fw_out.calls = 1 /\ fw_in.policy.t = "bool"
          /\ ~(fw_in.iteration = 1 /\ fw_in.step_count = 0))
         => fw_out.exc = "none" /\ fw_out.fix = (fw_in.policy.v = "True")
    /\ fw_again.kind = "repeat"
         => fw_again.exc = fw_out.exc /\ fw_again.fix = fw_out.fix
    /\ fw_again.kind = "feedback"
         => fw_again.exc = "none" /\ fw_again.fix = fw_out.fix

\* the policy True returned at step 0 of iteration 2 and fed back
C13_Witness ==
    /\ fw_in.policy = [t |-> "bool", v |-> "True"]
    /\ fw_in.iteration = 2 /\ fw_in.step_count = 0
    /\ fw_out.fix = TRUE
    /\ fw_again.kind = "feedback" /\ fw_again.fix = TRUE

\* C14: a policy that is neither a bool nor the string "ITER" or "ONCE"
\* makes the call raise; no fix_windows value is returned.
C14_InvalidPolicyRaises ==
    (/\ fw_out.calls = 1
     /\ fw_in.policy.t # "bool"
     /\ ~(fw_in.policy.t = "str"
            /\ Upper(fw_in.policy.v) \in {"ITER", "ONCE"}))
        => fw_out.exc # "none"

\* a Manager operation is being made
MgrStep == mgr_nops' = mgr_nops + 1

\* C15: on a Manager whose Gatherer has resolved the event, reset("soft")
\* keeps that Gatherer, issues no event query and leaves the event in the new
\* Crate, and reset("hard") leaves the Manager without Gatherer.
C15_ResetKeepsOrDiscardsGatherer ==
    [][(/\ MgrStep /\ mgr_last'.op = "reset"
        /\ mgr_gatherer # PyNone /\ mgr_gatherer.event # PyNone) =>
        /\ mgr_last'.arg = "soft" =>
                /\ ~mgr_last'.new_gatherer
                /\ mgr_last'.queries = 0
                /\ mgr_crate'.event = mgr_gatherer.event
        /\ mgr_last'.arg = "hard" => mgr_gatherer' = PyNone]_vars

\* the crate field a Gatherer request fills
RequestField(kind) ==
    CASE kind = "station" -> "inv"
      [] kind = "observed" -> "st_obs"
      [] kind = "synthetic" -> "st_syn"

\* C16: gather_data without overwrite leaves every populated field of the
\* Crate as it is and issues a Gatherer request for absent fields only.
C16_GatherKeepsPopulatedFields ==
    [][(MgrStep /\ mgr_last'.op = "gather_data" /\ mgr_last'.arg = "") =>
        /\ \A f \in {"station_code", "inv", "st_obs", "st_syn", "event"} :
              Truthy(mgr_crate[f]) => mgr_crate'[f] = mgr_crate[f]
        /\ \A i \in 1..Len(mgr_last'.requests) :
              ~Truthy(mgr_crate[RequestField(mgr_last'.requests[i])])]_vars

\* a second gather_data that asked for the synthetic stream only, the other
\* fields being there from the first call
C16_Witness ==
    /\ mgr_last.op = "gather_data" /\ mgr_last.arg = ""
    /\ mgr_nops >= 2
    /\ mgr_last.requests = <<"synthetic">>
    /\ Truthy(mgr_crate.inv) /\ Truthy(mgr_crate.st_obs)
    /\ Truthy(mgr_crate.st_syn)

\* C17: a gather_data during which a Gatherer request failed is left by an
\* exception.
C17_GatherFailureRaises ==
    (mgr_last.op = "gather_data" /\ mgr_last.failed)
        => mgr_last.exc # "none"

\* C18: a non-empty crate.adj_srcs comes with a non-empty crate.windows.
C18_AdjSrcsImplyWindows ==
    Truthy(mgr_crate.adj_srcs) => Truthy(mgr_crate.windows)

\* C19: a non-empty crate.windows comes with both streams present and
\* preprocessed.
C19_WindowsImplyPreprocessed ==
    Truthy(mgr_crate.windows) =>
        /\ IsStream(mgr_crate.st_obs) /\ mgr_crate.st_obs.proc
        /\ IsStream(mgr_crate.st_syn) /\ mgr_crate.st_syn.proc

\* C20: gather_data, preprocess, run_pyflex and run_pyadjoint never turn a
\* populated field of the Crate into an absent or empty one.
C20_CrateMonotone ==
    [][(MgrStep /\ mgr_last'.op # "reset") =>
        \A f \in {"st_obs", "st_syn", "inv", "event", "windows",
                  "adj_srcs"} :
            Truthy(mgr_crate[f]) => Truthy(mgr_crate'[f])]_vars

\* C22: after process_event the STATIONS_ADJOINT file holds the lines of the
\* STATIONS file, in order, of the stations whose adjoint sources were
\* written in this run, and no other line.
C22_StationsAdjointOfThisRun ==
    pc = "done" =>
        stations_adjoint =
            SelectSeq(StationsFile,
                      LAMBDA l : <<l[2], l[1]>> \in seen.adj_stations)

\* -------------------------------------------------- C21 (write_adj_src_to_ascii)
WaReal(sta) == { c \in {"N", "E", "Z"} : wa_in[<<sta, c>>] # Absent }
WaStationSet == { WaStations[i] : i \in DOMAIN WaStations }
WaAmplitudes(file) == { file[i].amp[2] : i \in DOMAIN file }

\* C21: for a station with adjoint sources on some of the configured
\* components, write_adj_src_to_ascii leaves exactly one file per configured
\* component; the file of a component with an adjoint source holds that
\* source, the file of a component without one has an all-zero amplitude
\* column and as many rows as an adjoint source of the station.
C21_OneFilePerComponent ==
    wa_files # PyNone =>
        \A sta \in WaStationSet :
            LET mine == { n \in DOMAIN wa_files : n[1] = sta }
            IN  IF WaReal(sta) = {}
                THEN mine = {}
                ELSE /\ mine = { <<sta, comp_list[c]>> : c \in DOMAIN comp_list }
                     /\ \A n \in mine :
                            IF n[2] \in WaReal(sta)
                            THEN wa_files[n] = WriteToAscii(wa_in[n])
                            ELSE /\ WaAmplitudes(wa_files[n]) = {0}
                                 /\ \E c \in WaReal(sta) :
                                        Len(wa_files[n]) = Len(wa_in[<<sta, c>>])

\* a station with two adjoint sources of different lengths and one blank
C21_Witness ==
    /\ wa_files # PyNone
    /\ \E sta \in WaStationSet :
           /\ WaReal(sta) = {"E", "N"}
           /\ Len(wa_in[<<sta, "E">>]) # Len(wa_in[<<sta, "N">>])
           /\ wa_in[<<sta, "N">>][1][2] # 0
           /\ <<sta, "Z">> \in DOMAIN wa_files

\* ---------------------------------------- C23, C24 (events of one process)
\* C23: whatever the number of setup() calls of the process, each of the
\* loggers "pyflex", "pyadjoint" and "pyatoa" has at most one event log
\* handler, and no record of an event is written by the handler (to the log
\* file) of an earlier event.
C23_OneHandlerPerLogger ==
    /\ \A l \in LoggerSet : Len(pr_loggers[l]) <= 1
    /\ \A h \in DOMAIN pr_logs : \A e \in pr_logs[h] : ~(h < e)

PrCounters(io_obj) ==
    <<io_obj.misfit, io_obj.nwin, io_obj.stations, io_obj.processed,
      io_obj.exceptions>>

\* C24: a setup that returns appends an IO instance with all five counters
\* at 0 and an empty plot_fids list that no other IO instance holds; and a
\* process_station given one IO instance leaves the counters and the plot
\* paths of every other instance as they were.
C24_FreshUnsharedIO ==
    [][ /\ Len(pr_ios') = Len(pr_ios) + 1 =>
            LET new == pr_ios'[Len(pr_ios')]
            IN  /\ PrCounters(new) = <<0, 0, 0, 0, 0>>
                /\ pr_heap'[new.plot_fids] = <<>>
                /\ \A e \in DOMAIN pr_ios :
                       /\ pr_ios'[e].plot_fids # new.plot_fids
                       /\ pr_ios'[e] = pr_ios[e]
                       /\ pr_heap'[pr_ios[e].plot_fids] =
                              pr_heap[pr_ios[e].plot_fids]
        /\ Len(pr_ios') = Len(pr_ios) =>
            \A e, f \in DOMAIN pr_ios :
                (e # f /\ pr_ios'[e] # pr_ios[e]) =>
                    /\ pr_ios'[f] = pr_ios[f]
                    /\ pr_heap'[pr_ios[f].plot_fids] =
                           pr_heap[pr_ios[f].plot_fids]
      ]_vars

\* a second event set up after the first accumulated counters and a plot
\* path, and then processed a station of its own
C24_Witness ==
    /\ Len(pr_ios) = 2
    /\ pr_ios[1].nwin > 0 /\ pr_heap[pr_ios[1].plot_fids] # <<>>
    /\ pr_ios[2].exceptions = 1 /\ pr_ios[2].nwin = 0
    /\ Len(pr_heap[pr_ios[2].plot_fids]) = 1
    /\ pr_logs[2] = {2}

\* ------------------------------------------------- C25 (PathStructure.format)
PfRolePaths(key) ==
    { pf_in.structure.roles[key][i] :
          i \in DOMAIN pf_in.structure.roles[key] }
PfDirRoles(from, to) ==
    { REQUIRED_PATHS[k] : k \in from..to } \ {"ds_file", "stations_file"}
PfDirs(from, to) == UNION { PfRolePaths(key) : key \in PfDirRoles(from, to) }
PfFiles == PfRolePaths("ds_file") \cup PfRolePaths("stations_file")
PfStationsMissing == ~(PfRolePaths("stations_file") \subseteq pf_in.fs)

\* C25, as stated: format creates every directory role that does not exist
\* (it returns with all of them existing), raises FileNotFoundError when
\* the stations file is missing, and raises for nothing else, a missing
\* dataset file included.
C25_AsStated ==
    pf_out # PyNone =>
        IF PfStationsMissing
        THEN pf_out = Str("FileNotFoundError")
        ELSE pf_out = Str("none") /\ PfDirs(1, 11) \subseteq pf_fs

\* C25, amended: with mkdirs true format creates the missing directory
\* roles in the order of the required paths, raises FileNotFoundError when
\* it comes to a missing stations file (the directory roles listed after
\* it are then left as they were) and never raises for a missing dataset
\* file; with mkdirs false it creates nothing and raises IOError at the
\* first missing directory role.  No file is created either way.
C25_FormatWithMkdirs ==
    pf_out # PyNone =>
        /\ pf_fs \cap PfFiles = pf_in.fs \cap PfFiles
        /\ IF pf_in.mkdirs
           THEN IF PfStationsMissing
                THEN /\ pf_out = Str("FileNotFoundError")
                     /\ PfDirs(1, 6) \subseteq pf_fs
                     /\ pf_fs \cap PfDirs(7, 11) \subseteq pf_in.fs
                ELSE pf_out = Str("none") /\ PfDirs(1, 11) \subseteq pf_fs
           ELSE /\ pf_fs = pf_in.fs
                /\ pf_out =
                     IF ~(PfDirs(1, 6) \subseteq pf_in.fs) THEN Str("IOError")
                     ELSE IF PfStationsMissing THEN Str("FileNotFoundError")
                     ELSE IF ~(PfDirs(7, 11) \subseteq pf_in.fs)
                     THEN Str("IOError")
                     ELSE Str("none")

\* format returned after creating directories although the dataset file
\* does not exist
C25_Witness ==
    /\ pf_out = Str("none")
    /\ pf_in.mkdirs
    /\ ~(PfRolePaths("ds_file") \subseteq pf_in.fs)
    /\ ~(PfRolePaths("waveforms") \subseteq pf_in.fs)
    /\ PfRolePaths("waveforms") \subseteq pf_fs
    /\ PfRolePaths("cwd") \subseteq pf_in.fs

\* ------------------------------------------------- C26 .. C30 (one Manager)
\* C26: Manager.st is the synthetic followed by the observed stream when
\* both are present, the one that is present when only one is, and an empty
\* stream when neither is.
C26_StAccessor ==
    LET s == St(mgr_crate)
    IN  /\ IsStream(s)
        /\ s.traces =
             (IF IsStream(mgr_crate.st_syn) THEN <<mgr_crate.st_syn>>
              ELSE <<>>)
             \o (IF IsStream(mgr_crate.st_obs) THEN <<mgr_crate.st_obs>>
                 ELSE <<>>)

BothStreams(crate) == IsStream(crate.st_obs) /\ IsStream(crate.st_syn)

\* C27: preprocess and run_pyflex called without both streams, and
\* run_pyadjoint called without windows, return without raising, write
\* nothing to the dataset and leave the Crate as it is.
C27_FailedPrecheckChangesNothing ==
    [][(/\ MgrStep
        /\ \/ /\ mgr_last'.op \in {"preprocess", "run_pyflex"}
              /\ ~BothStreams(mgr_crate)
           \/ /\ mgr_last'.op = "run_pyadjoint"
              /\ ~Truthy(mgr_crate.windows)) =>
        /\ mgr_last'.exc = "none"
        /\ mgr_crate' = mgr_crate
        /\ mgr_ds' = mgr_ds ]_vars

\* preprocess returned on a Crate that holds the observed stream only
C27_Witness ==
    /\ mgr_last.op = "preprocess" /\ mgr_last.exc = "none"
    /\ IsStream(mgr_crate.st_obs) /\ ~mgr_crate.st_obs.proc
    /\ mgr_crate.st_syn = PyNone

\* the components of config.component_list a stream has no trace for
NoTrace(st) == { component_list[i] : i \in DOMAIN component_list } \ st.comps

\* C28: run_pyflex on streams of which one has no trace for a component
\* does not raise for it: it stores no window for that component and goes
\* on with the other components (a failing write to the dataset, the
\* exception "Exception" here, is another matter).
C28_MissingComponentSkipped ==
    [][(/\ MgrStep /\ mgr_last'.op = "run_pyflex"
        /\ BothStreams(mgr_crate) /\ mgr_crate.event # PyNone
        /\ NoTrace(mgr_crate.st_obs) \cup NoTrace(mgr_crate.st_syn) # {}
        /\ mgr_last'.exc # "Exception") =>
        /\ mgr_last'.exc = "none"
        /\ mgr_crate'.windows.py = "dict"
        /\ mgr_crate'.windows.keys \cap
               (NoTrace(mgr_crate.st_obs) \cup NoTrace(mgr_crate.st_syn)) = {}
        /\ mgr_crate'.windows.keys =
               mgr_crate.st_obs.pick \cap mgr_crate.st_syn.pick ]_vars

\* C29: run_pyadjoint never divides by a window count of zero: a Crate
\* whose windows pass the precondition check has number_windows >= 1; and
\* on a Crate whose run_pyflex found no window run_pyadjoint returns and
\* leaves adj_srcs and total_misfit as they are.
C29_NoDivisionByZero ==
    [][ /\ Truthy(mgr_crate.windows) =>
            /\ mgr_crate.number_windows.py = "int"
            /\ mgr_crate.number_windows.v >= 1
        /\ mgr_last'.exc # "ZeroDivisionError"
        /\ (/\ MgrStep /\ mgr_last'.op = "run_pyadjoint"
            /\ mgr_crate.number_windows = PyInt(0)) =>
               /\ mgr_last'.exc = "none"
               /\ mgr_crate'.adj_srcs = mgr_crate.adj_srcs
               /\ mgr_crate'.total_misfit = mgr_crate.total_misfit
      ]_vars

\* run_pyadjoint called after a run_pyflex that found no window on
\* processed streams
C29_Witness ==
    /\ mgr_last.op = "run_pyadjoint" /\ mgr_last.exc = "none"
    /\ mgr_crate.number_windows = PyInt(0)
    /\ mgr_crate.windows = Dict({})
    /\ BothStreams(mgr_crate) /\ mgr_crate.st_syn.proc
    /\ mgr_crate.total_misfit = PyNone

\* C30: preprocess on an event without a usable source-time-function
\* duration (no focal mechanism, no moment tensor or no source time
\* function) does not raise; when both streams could be processed the time
\* offset is set and syn_shift_flag stays False.
C30_NoDurationNoRaise ==
    [][(/\ MgrStep /\ mgr_last'.op = "preprocess"
        /\ BothStreams(mgr_crate) /\ mgr_crate.event # PyNone
        /\ mgr_cfg.stf # "duration") =>
        /\ mgr_last'.exc = "none"
        /\ BothStreams(mgr_crate') =>
               /\ mgr_crate'.st_obs.proc /\ mgr_crate'.st_syn.proc
               /\ mgr_crate'.time_offset # PyNone
               /\ mgr_crate'.syn_shift_flag = FALSE ]_vars

\* ------------------------------------------ C31, C35, C39 (one Manager)
\* C31: a dataset write that fails in run_pyflex or run_pyadjoint is not
\* propagated: the stage returns without an exception and the windows
\* (run_pyflex) or adjoint sources (run_pyadjoint) it computed are in the
\* Crate.
C31_WriteFailureNotPropagated ==
    (mgr_last.op \in {"run_pyflex", "run_pyadjoint"} /\ mgr_last.failed) =>
        /\ mgr_last.exc = "none"
        /\ mgr_last.op = "run_pyflex" => Truthy(mgr_crate.windows)
        /\ mgr_last.op = "run_pyadjoint" => Truthy(mgr_crate.adj_srcs)

\* the components for which the dataset holds an entry of this type for
\* the station
Persisted(kind, sta) ==
    { c \in { component_list[i] : i \in DOMAIN component_list } :
        <<kind, sta, c>> \in mgr_ds }

\* C35: once run_pyadjoint has been called (whether it returned or raised),
\* the dataset holds adjoint sources for exactly the components of a
\* station it holds windows for.
C35_AtomicPerStation ==
    mgr_last.op = "run_pyadjoint" =>
        \A sta \in ManagerStations :
            Persisted("AdjointSources", sta) = Persisted("MisfitWindows", sta)

\* C39: every populated field of the Crate (inv, st_obs, st_syn) was
\* gathered for the station named by crate.station_code.
C39_OneStationPerCrate ==
    \A f \in {"inv", "st_obs", "st_syn"} :
        Truthy(mgr_crate[f]) =>
            /\ mgr_crate.station_code.py = "str"
            /\ mgr_crate[f].sta = mgr_crate.station_code.v

\* --------------------------------------------- C36, C37 (setup, templates)
\* C36: the Config of an event keeps the client of the template Config
\* when the template is at iteration 1 and step count 0, and has client
\* None for every other (iteration, step count).
C36_ClientOnlyAtFirstEvaluation ==
    \A e \in DOMAIN pr_ios :
        pr_ios[e].config.client =
            IF pr_cfg.iteration = 1 /\ pr_cfg.step_count = 0
            THEN pr_cfg.client ELSE PyNone

\* C37: no setup call, returning or raising, changes self.config or
\* self.path_structure: self.config stays the Config the Pyaflowa was made
\* with (no event id, no paths, its client) and self.path_structure stays
\* the unformatted template.
C37_TemplatesUnchanged ==
    [][ /\ pr_self' = pr_self
        /\ pr_self[ConfigRef] = pr_cfg
        /\ pr_self[PathRef] \in PathTemplates ]_vars

\* two events of different names set up from one Pyaflowa, each with its
\* own formatted paths in its Config
C37_Witness ==
    /\ Len(pr_ios) = 2
    /\ pr_ios[1].config.event_id # pr_ios[2].config.event_id
    /\ \A e \in {1, 2} :
           pr_ios[e].config.paths.synthetics =
               FormatValue(pr_self[PathRef].synthetics,
                           pr_ios[e].config.event_id.v)
    /\ pr_ios[1].config.paths # pr_ios[2].config.paths

\* ------------------------------------------------ C38 (the IO counters)
\* one pass of the station loop
StationStep == pc = "loop" /\ idx' = idx + 1

\* the counters after a process_station call, idx' calls having been made
CountersAdvance ==
    /\ io'.stations = idx'
    /\ io'.processed + io'.exceptions <= io'.stations
    /\ io'.stations >= io.stations /\ io'.processed >= io.processed
    /\ io'.exceptions >= io.exceptions
    /\ io'.misfit >= io.misfit /\ io'.nwin >= io.nwin
    /\ (io'.misfit # io.misfit \/ io'.nwin # io.nwin) =>
           io'.processed = io.processed + 1

\* finalize is called with io.stations equal to the length of the code list
FinalizeCountsAll ==
    (pc = "loop" /\ pc' # "loop" /\ idx' = idx) => io.stations = Len(codes)

C32_PlotsMergedAndRemoved ==
    /\ ~(result.kind = "raised" /\ result.where = "finalize")
    /\ pc = "done" =>
           /\ io.plot_fids # <<>> => EventPdf \in fig_files
           /\ \A i \in DOMAIN io.plot_fids : io.plot_fids[i] \notin fig_files
    /\ pc = "loop" =>
           /\ \A i \in DOMAIN io.plot_fids : io.plot_fids[i] \in fig_files
           /\ Len(io.plot_fids) = Cardinality(fig_files)

\* ------------------------------------ C33, C34 (writers over a dataset)
\* the (NET, STA) pairs with an adjoint source under the step
AdjSrcStations(step) ==
    { <<c[2][1], c[2][2]>> : c \in AdjSrcList(wd_ds, step) }

\* C33: write_stations_adjoint keeps the lines of the STATIONS file whose
\* (NET, STA) is that of a station with an adjoint source, and no other.
C33_KeepsLinesOfNetSta ==
    (wd_stations # PyNone /\ wd_stations.exc = "none") =>
        wd_stations.lines =
            SelectSeq(WdStationsFile,
                      LAMBDA l : <<l[2], l[1]>> \in
                                     AdjSrcStations(wd_stations.step))

\* C34: write_misfit writes 0.5 * (sum of the misfit values of the step)
\* / (number of misfit windows of the step), and when that number is 0 it
\* writes nothing and raises nothing.
C34_ScaledMisfitOrAbstain ==
    (/\ wd_misfit # PyNone
     /\ AdjSrcList(wd_ds, wd_misfit.step) # {}
     /\ wd_misfit.step \in DOMAIN wd_ds.windows) =>
        LET total == TotalMisfit(wd_ds, AdjSrcList(wd_ds, wd_misfit.step))
            n == wd_ds.windows[wd_misfit.step]
        IN  /\ wd_misfit.exc = "none"
            /\ IF n = 0 THEN wd_misfit.kind = "none"
               ELSE /\ wd_misfit.kind = "num"
                    /\ wd_misfit.num * 2 * n = total * wd_misfit.den

\* ------------------------------------------------------- C40 (Inspector)
\* C40: whatever appends and reads came before, the event_ids property
\* returns the keys of srcrcv without a '.' and the stations property the
\* keys with a '.', in the order of srcrcv.
C40_PropertiesFollowSrcrcv ==
    /\ (insp_last # PyNone /\ insp_last.op = "event_ids") =>
           insp_last.value.v =
               SelectSeq(insp.srcrcv, LAMBDA key : ~HasDot(key))
    /\ (insp_last # PyNone /\ insp_last.op = "stations") =>
           insp_last.value.v = SelectSeq(insp.srcrcv, HasDot)

============================================================================
